---- MODULE Spec2Model ----
(***************************************************************************)
(* hashdist.core.run_job: execution of a job specification (a tree of      *)
(* command nodes) in a controlled environment.                             *)
(*                                                                         *)
(* Strings are sequences of one-character strings, so that substitution,   *)
(* strip(), joining with separators and path joining are computed the way  *)
(* the code computes them.  Environments are functions from variable names *)
(* (strings) to values (strings); dict(env) is the function itself, since  *)
(* TLA+ values are immutable.                                              *)
(***************************************************************************)
EXTENDS Integers, Sequences, FiniteSets, TLC

(***************************************************************************)
(* Bounds of the model.                                                    *)
(***************************************************************************)
\* nodes in one job (which bounds the nesting and the length of a group too)
MaxNodes == 3
\* write() calls one child makes on its stdout and stderr
MaxWrites == 1

(***************************************************************************)
(* Strings                                                                 *)
(***************************************************************************)
None == "None"

Whitespace == {" ", "\n", "\t", "\r"}

IdStart == {"A", "X", "F", "i", "a", "b", "n", "_"}
IdChar == IdStart \cup {"0", "1"}

pathsep == <<":">>

IsPrefix(p, s) == Len(p) <= Len(s) /\ SubSeq(s, 1, Len(p)) = p

Contains(x, pat) ==
    \E i \in 1..(Len(x) - Len(pat) + 1) : SubSeq(x, i, i + Len(pat) - 1) = pat

Drop(s, k) == SubSeq(s, k + 1, Len(s))

\* str.replace(old, new): non-overlapping occurrences, left to right
RECURSIVE Replace(_, _, _)
Replace(x, old, new) ==
    IF Len(x) < Len(old) THEN x
    ELSE IF IsPrefix(old, x) THEN new \o Replace(Drop(x, Len(old)), old, new)
    ELSE <<Head(x)>> \o Replace(Tail(x), old, new)

\* str.strip()
RECURSIVE LStrip(_)
LStrip(s) == IF s # <<>> /\ Head(s) \in Whitespace THEN LStrip(Tail(s)) ELSE s

RECURSIVE RStrip(_)
RStrip(s) ==
    IF s # <<>> /\ s[Len(s)] \in Whitespace THEN RStrip(SubSeq(s, 1, Len(s) - 1)) ELSE s

Strip(s) == RStrip(LStrip(s))

\* sep.join(list)
RECURSIVE Join(_, _)
Join(sep, list) ==
    IF list = <<>> THEN <<>>
    ELSE IF Len(list) = 1 THEN list[1]
    ELSE list[1] \o sep \o Join(sep, Tail(list))

\* os.path.join(a, b)
pjoin(a, b) ==
    IF b # <<>> /\ Head(b) = "/" THEN b
    ELSE IF a = <<>> \/ a[Len(a)] = "/" THEN a \o b
    ELSE a \o <<"/">> \o b

\* str(i) for the small integers of a node position
Digit(i) == CASE i = 0 -> "0" [] i = 1 -> "1" [] i = 2 -> "2" [] i = 3 -> "3"
              [] i = 4 -> "4" [] OTHER -> "9"

(***************************************************************************)
(* Environments                                                            *)
(***************************************************************************)
EmptyEnv == [k \in {} |-> <<>>]

\* d[k] = v
Put(d, k, v) == [x \in DOMAIN d \cup {k} |-> IF x = k THEN v ELSE d[x]]

\* d.update(e)
Update(d, e) == [x \in DOMAIN d \cup DOMAIN e |-> IF x \in DOMAIN e THEN e[x] ELSE d[x]]

(***************************************************************************)
(* substitute: string.Template over the escaped text                       *)
(***************************************************************************)
Ok(v) == [ok |-> TRUE, val |-> v, err |-> None]
Err(e) == [ok |-> FALSE, val |-> <<>>, err |-> e]

\* length of the longest identifier prefix [_a-z][_a-z0-9]* of s (0 if none)
RECURSIVE IdCharsLen(_)
IdCharsLen(s) == IF s # <<>> /\ Head(s) \in IdChar THEN 1 + IdCharsLen(Tail(s)) ELSE 0

IdLen(s) == IF s # <<>> /\ Head(s) \in IdStart THEN 1 + IdCharsLen(Tail(s)) ELSE 0

\* Template(x).substitute(env): $$, $name, ${name}; anything else after a
\* dollar is an invalid placeholder (ValueError); a missing name is KeyError
RECURSIVE TemplateSubstitute(_, _)
TemplateSubstitute(x, env) ==
    IF x = <<>> THEN Ok(<<>>)
    ELSE IF Head(x) # "$" THEN
        LET r == TemplateSubstitute(Tail(x), env)
        IN IF r.ok THEN Ok(<<Head(x)>> \o r.val) ELSE r
    ELSE
        LET rest == Tail(x)
        IN IF rest # <<>> /\ Head(rest) = "$" THEN
               LET r == TemplateSubstitute(Tail(rest), env)
               IN IF r.ok THEN Ok(<<"$">> \o r.val) ELSE r
           ELSE IF IdLen(rest) > 0 THEN
               LET name == SubSeq(rest, 1, IdLen(rest))
               IN IF name \notin DOMAIN env THEN Err("KeyError")
                  ELSE LET r == TemplateSubstitute(Drop(rest, IdLen(rest)), env)
                       IN IF r.ok THEN Ok(env[name] \o r.val) ELSE r
           ELSE IF /\ rest # <<>> /\ Head(rest) = "{"
                   /\ IdLen(Tail(rest)) > 0
                   /\ Len(rest) > IdLen(Tail(rest)) + 1
                   /\ rest[IdLen(Tail(rest)) + 2] = "}" THEN
               LET name == SubSeq(rest, 2, IdLen(Tail(rest)) + 1)
               IN IF name \notin DOMAIN env THEN Err("KeyError")
                  ELSE LET r == TemplateSubstitute(Drop(rest, IdLen(Tail(rest)) + 2), env)
                       IN IF r.ok THEN Ok(env[name] \o r.val) ELSE r
           ELSE Err("ValueError")

\* module-level substitute(x, env)
substitute(x, env) ==
    IF Contains(x, <<"$", "$">>) THEN Err("KeyError")
    ELSE LET x1 == Replace(x, <<"\\", "\\", "\\", "\\">>, <<"\\", "\\">>)
             x2 == Replace(x1, <<"\\", "$">>, <<"$", "$">>)
         IN TemplateSubstitute(x2, env)

\* CommandTreeExecution.substitute: KeyError is logged and re-raised as
\* ValueError; Template's own ValueError passes through
self_substitute(x, env) ==
    LET reraised(r) == IF r.ok THEN r ELSE Err("ValueError")
    IN reraised(substitute(x, env))

(***************************************************************************)
(* Job-spec nodes.  A node is a dict: `keys` are the keys present, the     *)
(* other fields their values (`name` is the value of the env-mutator key,  *)
(* `n` is len(node['commands'])).                                          *)
(***************************************************************************)
type_keys == <<"commands", "cmd", "hit", "set", "prepend_path", "append_path",
               "prepend_flag", "append_flag">>

TypeKeySet == {type_keys[k] : k \in DOMAIN type_keys}

BaseNode == [keys |-> {}, name |-> <<>>, value |-> <<>>, args |-> <<>>,
             to_var |-> <<>>, append_to_file |-> <<>>, inputs |-> <<>>,
             cwd |-> <<>>, n |-> 0]

WithCwd(node, d) == [node EXCEPT !.keys = @ \cup {"cwd"}, !.cwd = d]
WithToVar(node, v) == [node EXCEPT !.keys = @ \cup {"to_var"}, !.to_var = v]
WithAppend(node, f) ==
    [node EXCEPT !.keys = @ \cup {"append_to_file"}, !.append_to_file = f]
WithInputs(node, ins) == [node EXCEPT !.keys = @ \cup {"inputs"}, !.inputs = ins]
WithKey(node, k) == [node EXCEPT !.keys = @ \cup {k}]

EnvModNode(t, name, value) ==
    [BaseNode EXCEPT !.keys = {t, "value"}, !.name = name, !.value = value]
CmdNode(args) == [BaseNode EXCEPT !.keys = {"cmd"}, !.args = args]
HitNode(args) == [BaseNode EXCEPT !.keys = {"hit"}, !.args = args]
GroupNode(n) == [BaseNode EXCEPT !.keys = {"commands"}, !.n = n]

\* one entry of `inputs`
StringInput(s) == [isdict |-> TRUE, keys |-> {"string"}, text |-> <<>>, string |-> s, json |-> <<>>]
TextInput(ls) == [isdict |-> TRUE, keys |-> {"text"}, text |-> ls, string |-> <<>>, json |-> <<>>]
JsonInput(s) == [isdict |-> TRUE, keys |-> {"json"}, text |-> <<>>, string |-> <<>>, json |-> s]

(***************************************************************************)
(* The inputs of the model: names, values, nodes                           *)
(***************************************************************************)
FOO == <<"F">>
XVAR == <<"X">>
in0 == <<"i", "n", "0">>

EnvModTypes == {"set", "prepend_path", "append_path", "prepend_flag", "append_flag"}

Values == {<<"a">>, <<"b">>, <<"$", "X">>}

logpipe == <<"l", "o", "g", "p", "i", "p", "e">>
INFO == <<"I", "N", "F", "O">>
Heading == <<"H">>
LevelNames == {<<"C", "R", "I", "T", "I", "C", "A", "L">>, <<"E", "R", "R", "O", "R">>,
               <<"W", "A", "R", "N", "I", "N", "G">>, INFO,
               <<"D", "E", "B", "U", "G">>}

EnvModNodes == {EnvModNode(t, FOO, v) : t \in EnvModTypes, v \in Values}

OutFile == <<"o">>
TmpFile == <<"/", "t", "/", "x">>
\* a file in a sibling of the directory mkdtemp makes, whose name starts with
\* the same text
SiblingFile == <<"/", "t", "x", "/", "y">>

Cmd1 == CmdNode(<<<<"a">>>>)
Hit1 == HitNode(<<<<"a">>>>)
LogPipe1 == HitNode(<<logpipe, Heading, INFO>>)

LeafNodes ==
    {Cmd1, CmdNode(<<<<"a">>, <<"$", "X">>>>), Hit1, LogPipe1,
     HitNode(<<logpipe, Heading>>),
     WithToVar(Cmd1, XVAR), WithToVar(Hit1, XVAR), WithToVar(LogPipe1, XVAR),
     WithAppend(Cmd1, OutFile), WithAppend(Cmd1, TmpFile), WithAppend(Hit1, OutFile),
     WithAppend(Cmd1, SiblingFile),
     WithAppend(WithToVar(Cmd1, XVAR), OutFile),
     WithKey(WithToVar(Cmd1, XVAR), "stdout_to_file"),
     WithCwd(Cmd1, <<"d">>), WithCwd(Cmd1, <<"$", "X">>),
     WithInputs(CmdNode(<<<<"$", "i", "n", "0">>>>), <<StringInput(<<"s">>)>>),
     WithInputs(Cmd1, <<StringInput(<<"s">>), JsonInput(<<"s">>)>>),
     WithInputs(WithToVar(Hit1, XVAR), <<TextInput(<<<<"a">>, <<"b">>>>)>>),
     WithInputs(Hit1, <<JsonInput(<<"s">>), [StringInput(<<"s">>) EXCEPT !.isdict = FALSE]>>),
     WithInputs(Cmd1, <<[StringInput(<<"s">>) EXCEPT !.keys = {"string", "text"}]>>)}

GroupNodes(maxn) ==
    {GroupNode(n) : n \in 0..maxn}
    \cup (IF maxn > 0
          THEN {WithCwd(GroupNode(maxn), <<"d">>), WithToVar(GroupNode(maxn), XVAR),
                WithInputs(GroupNode(maxn), <<StringInput(<<"s">>)>>),
                WithAppend(GroupNode(maxn), OutFile)}
          ELSE {})

InvalidNodes ==
    {BaseNode,
     WithKey(EnvModNode("set", FOO, <<"a">>), "cmd"),
     WithKey(GroupNode(1), "cmd"),
     WithToVar(WithKey(Cmd1, "hit"), XVAR)}

Min(a, b) == IF a < b THEN a ELSE b

\* the nodes a job may hold at a place where `budget` more nodes fit in
\* MaxNodes
NodesFor(budget) ==
    EnvModNodes \cup LeafNodes \cup InvalidNodes \cup GroupNodes(budget)

\* the caller's arguments: env as built by run_job before the executor exists
InitEnvs == {EmptyEnv, Put(Put(EmptyEnv, FOO, <<>>), XVAR, <<"x">>)}

cwd0 == <<"/", "w">>

\* the directory mkdtemp makes, and the one a caller may supply
MadeTempDir == <<"/", "t">>
GivenTempDir == <<"/", "u">>

(***************************************************************************)
(* Paths and files                                                         *)
(***************************************************************************)
\* the components of a path, split at "/"
RECURSIVE SplitPath(_, _)
SplitPath(s, acc) ==
    IF s = <<>> THEN <<acc>>
    ELSE IF Head(s) = "/" THEN <<acc>> \o SplitPath(Tail(s), <<>>)
    ELSE SplitPath(Tail(s), Append(acc, Head(s)))

RECURSIVE NormComponents(_, _)
NormComponents(comps, acc) ==
    IF comps = <<>> THEN acc
    ELSE LET c == Head(comps)
         IN IF c = <<>> \/ c = <<".">> THEN NormComponents(Tail(comps), acc)
            ELSE IF c = <<".", ".">> THEN
                NormComponents(Tail(comps),
                               IF acc = <<>> THEN acc ELSE SubSeq(acc, 1, Len(acc) - 1))
            ELSE NormComponents(Tail(comps), Append(acc, c))

\* os.path.realpath of an absolute path (the modelled file system holds no
\* symbolic links)
realpath(path) == <<"/">> \o Join(<<"/">>, NormComponents(SplitPath(path, <<>>), <<>>))

isabs(path) == path # <<>> /\ Head(path) = "/"

\* shutil.rmtree(d) on the files: everything below d goes
RmTree(files, d) ==
    [f \in {g \in DOMAIN files : ~IsPrefix(d \o <<"/">>, g)} |-> files[f]]

\* os.listdir(d)
ListDir(files, d) == {g \in DOMAIN files : IsPrefix(d \o <<"/">>, g)}

\* json.dumps(s, indent=4) of a document that is one plain string
JsonDumps(s) == <<"\"">> \o s \o <<"\"">>

(***************************************************************************)
(* dump_inputs                                                             *)
(***************************************************************************)
InputName(i) == <<"i", "n", Digit(i)>>

\* a file name that leaves the node position out
InputFileNameOfIndex(tdir, node_pos, i) == pjoin(tdir, <<"_">> \o InputName(i))

InputFileName(tdir, node_pos, i) ==
    pjoin(tdir, Join(<<"_">>, [k \in 1..Len(node_pos) |-> <<Digit(node_pos[k])>>])
                \o <<"_">> \o InputName(i))

\* the loop of dump_inputs from input number i (0-based) on; files written
\* before a malformed entry is met stay written
RECURSIVE DumpFrom(_, _, _, _, _, _)
DumpFrom(inputs, i, node_pos, tdir, env, files) ==
    IF i >= Len(inputs) THEN [ok |-> TRUE, err |-> None, env |-> env, fs |-> files]
    ELSE LET input == inputs[i + 1]
             base == InputFileName(tdir, node_pos, i)
         IN IF ~input.isdict THEN
                [ok |-> FALSE, err |-> "TypeError", env |-> env, fs |-> files]
            ELSE IF Cardinality(input.keys \cap {"text", "json", "string"}) # 1 THEN
                [ok |-> FALSE, err |-> "ValueError", env |-> env, fs |-> files]
            ELSE LET value == IF "text" \in input.keys THEN Join(<<"\n">>, input.text)
                              ELSE IF "string" \in input.keys THEN input.string
                              ELSE JsonDumps(input.json)
                     filename == IF "json" \in input.keys
                                 THEN base \o <<".", "j", "s", "o", "n">>
                                 ELSE base
                 IN DumpFrom(inputs, i + 1, node_pos, tdir,
                             Put(env, InputName(i), filename),
                             Put(files, filename, value))

dump_inputs(inputs, node_pos, tdir, files) ==
    DumpFrom(inputs, 0, node_pos, tdir, EmptyEnv, files)

(***************************************************************************)
(* run_node: the action type of a node                                     *)
(***************************************************************************)
\* run_node without the test for a second action key: the last key of
\* type_keys that is present wins
NodeTypeLastWins(node) ==
    LET present == {k \in DOMAIN type_keys : type_keys[k] \in node.keys}
    IN IF present = {} THEN None
       ELSE type_keys[CHOOSE k \in present : \A j \in present : j <= k]

\* the type run_node dispatches on, or None when it raises InvalidJobSpecError
NodeType(node) ==
    LET present == node.keys \cap TypeKeySet
    IN IF Cardinality(present) = 1 THEN CHOOSE t \in present : TRUE ELSE None

(***************************************************************************)
(* handle_env_mod                                                          *)
(***************************************************************************)
EnvModAction(t) ==
    CASE t = "set" -> "set"
      [] t \in {"prepend_path", "prepend_flag"} -> "prepend"
      [] OTHER -> "append"

EnvModSep(t) ==
    CASE t \in {"prepend_path", "append_path"} -> pathsep
      [] OTHER -> <<" ">>

\* handle_env_mod with the operands of the two joins exchanged
handle_env_mod_swapped(node, env, varname, action, sep) ==
    LET assign(r) ==
            IF ~r.ok THEN [ok |-> FALSE, err |-> r.err, env |-> env]
            ELSE [ok |-> TRUE, err |-> None,
                  env |-> IF action = "set" \/ varname \notin DOMAIN env
                             \/ Len(env[varname]) = 0
                          THEN Put(env, varname, r.val)
                          ELSE IF action = "prepend"
                          THEN Put(env, varname, Join(sep, <<env[varname], r.val>>))
                          ELSE Put(env, varname, Join(sep, <<r.val, env[varname]>>))]
    IN assign(self_substitute(node.value, env))

\* value is the substituted node['value']
handle_env_mod(node, env, varname, action, sep) ==
    LET assign(value) ==
            IF ~value.ok THEN [ok |-> FALSE, err |-> value.err, env |-> env]
            ELSE [ok |-> TRUE, err |-> None,
                  env |-> IF action = "set" \/ varname \notin DOMAIN env
                             \/ Len(env[varname]) = 0
                          THEN Put(env, varname, value.val)
                          ELSE IF action = "prepend"
                          THEN Put(env, varname, Join(sep, <<value.val, env[varname]>>))
                          ELSE Put(env, varname, Join(sep, <<env[varname], value.val>>))]
    IN assign(self_substitute(node.value, env))

process_cwd(node, cwd) == IF "cwd" \in node.keys THEN pjoin(cwd, node.cwd) ELSE cwd

(***************************************************************************)
(* handle_command_nodes up to the call of run_cmd / run_hit                *)
(***************************************************************************)
\* [self.substitute(x, node_env) for x in args]
SubstAll(args, env) ==
    LET collect(rs) ==
            IF \E k \in 1..Len(rs) : ~rs[k].ok THEN Err("ValueError")
            ELSE Ok([k \in 1..Len(rs) |-> rs[k].val])
    IN collect([k \in 1..Len(args) |-> self_substitute(args[k], env)])

\* the checks on the node's modifiers that open handle_command_nodes
ModifierCheck(node) ==
    IF Cardinality(node.keys \cap {"cmd", "hit", "commands", "set"}) # 1 THEN "ValueError"
    ELSE IF Cardinality(node.keys \cap {"to_var", "stdout_to_file"}) > 1 THEN "ValueError"
    ELSE IF "commands" \in node.keys
            /\ node.keys \cap {"append_to_file", "to_var", "inputs"} # {} THEN "ValueError"
    ELSE None

\* the target of append_to_file: substituted, made absolute, canonical;
\* refused when its text starts with temp_dir
RedirectTarget(node, node_env, node_cwd, tdir) ==
    LET guarded(stdout_filename) ==
            IF IsPrefix(tdir, stdout_filename)
            THEN [ok |-> FALSE, err |-> "NotImplementedError", path |-> <<>>]
            ELSE [ok |-> TRUE, err |-> None, path |-> stdout_filename]
        canonical(name) ==
            guarded(realpath(IF isabs(name) THEN name ELSE pjoin(node_cwd, name)))
        target(r) ==
            IF ~r.ok THEN [ok |-> FALSE, err |-> "ValueError", path |-> <<>>]
            ELSE canonical(r.val)
    IN target(self_substitute(node.append_to_file, node_env))

\* which sink the leaf's stdout goes to
SinkKind(node) ==
    IF "to_var" \in node.keys THEN "var"
    ELSE IF "append_to_file" \in node.keys THEN "file"
    ELSE "none"

\* everything handle_command_nodes does before it calls func
LeafPrepare(node, env, cwd, node_pos, tdir, files) ==
    LET fail(e, f, node_env, node_cwd, d) ==
            [ok |-> FALSE, err |-> e, node_env |-> node_env, node_cwd |-> node_cwd,
             args |-> <<>>, fs |-> f, sink |-> "none", file |-> <<>>, ins |-> d.env]
        prepared(chk, d, node_env, node_cwd, a, t, sink) ==
            IF chk # None THEN fail(chk, files, node_env, node_cwd, d)
            ELSE IF ~d.ok THEN fail(d.err, d.fs, node_env, node_cwd, d)
            ELSE IF ~a.ok THEN fail(a.err, d.fs, node_env, node_cwd, d)
            ELSE IF sink = "file" /\ ~t.ok THEN fail(t.err, d.fs, node_env, node_cwd, d)
            ELSE [ok |-> TRUE, err |-> None, node_env |-> node_env, node_cwd |-> node_cwd,
                  args |-> a.val,
                  \* file(stdout_filename, 'a') creates the file
                  fs |-> IF sink = "file" /\ t.path \notin DOMAIN d.fs
                         THEN Put(d.fs, t.path, <<>>) ELSE d.fs,
                  sink |-> sink,
                  file |-> IF sink = "file" THEN t.path ELSE <<>>,
                  ins |-> d.env]
        scoped(d, node_env, node_cwd) ==
            prepared(ModifierCheck(node), d, node_env, node_cwd,
                     SubstAll(node.args, node_env),
                     RedirectTarget(node, node_env, node_cwd, tdir), SinkKind(node))
        dumped(d) == scoped(d, Update(env, d.env), process_cwd(node, cwd))
    IN dumped(dump_inputs(IF "inputs" \in node.keys THEN node.inputs ELSE <<>>,
                          node_pos, tdir, files))

\* the to_var assignment made to node_env, the leaf's private copy
LeafResultPrivate(node, env, node_env, captured) ==
    [env |-> env,
     last_env |-> IF "to_var" \in node.keys THEN Put(node_env, node.to_var, Strip(captured))
                  ELSE node_env]

\* last_env taken from the enclosing env after the leaf instead of node_env
LeafResultEnclosing(node, env, node_env, captured) ==
    [env |-> IF "to_var" \in node.keys THEN Put(env, node.to_var, Strip(captured)) ELSE env,
     last_env |-> IF "to_var" \in node.keys THEN Put(env, node.to_var, Strip(captured))
                  ELSE env]

\* what the enclosing scope's env and last_env are once func has returned:
\* the to_var assignment goes to env, last_env is a copy of node_env
LeafResult(node, env, node_env, captured) ==
    [env |-> IF "to_var" \in node.keys THEN Put(env, node.to_var, Strip(captured)) ELSE env,
     last_env |-> node_env]

(***************************************************************************)
(* run_hit / create_log_pipe                                               *)
(***************************************************************************)
LogPipeName(tdir, sublogger_name, level_str) ==
    pjoin(tdir, logpipe \o <<"-">> \o sublogger_name \o <<"-">> \o level_str)

\* what the in-process hit helper (cli_main) may do: print and return or raise
HitOutputs == {<<>>, <<" ", "p", "\n">>}
HitOutcomes == [ok : BOOLEAN, out : HitOutputs]

\* run_hit(args, ...): `registry` is log_fifo_filenames, `o` the helper's
\* behaviour when the subcommand is not logpipe; `out` is what went to
\* sys.stdout
run_hit(args, registry, tdir, files, o) ==
    LET argv == <<<<"h", "i", "t">>>> \o args
        key == <<argv[3], argv[4]>>
        known == key \in DOMAIN registry
        fifo_filename == IF known THEN registry[key] ELSE LogPipeName(tdir, argv[3], argv[4])
        fail(e) == [ok |-> FALSE, err |-> e, out |-> <<>>, registry |-> registry, fs |-> files]
    IN IF Len(argv) >= 2 /\ argv[2] = logpipe THEN
           IF Len(argv) # 4 THEN fail("ValueError")
           ELSE IF argv[4] \notin LevelNames THEN fail("KeyError")
           ELSE [ok |-> TRUE, err |-> None, out |-> fifo_filename,
                 registry |-> IF known THEN registry ELSE Put(registry, key, fifo_filename),
                 fs |-> IF known THEN files ELSE Put(files, fifo_filename, <<>>)]
       ELSE IF o.ok THEN [ok |-> TRUE, err |-> None, out |-> o.out, registry |-> registry,
                          fs |-> files]
       ELSE [ok |-> FALSE, err |-> "HitError", out |-> o.out, registry |-> registry,
             fs |-> files]

(***************************************************************************)
(* logged_check_call: descriptors, line assembly, event handling           *)
(***************************************************************************)
LOG_PIPE_BUFSIZE == 4096

stdout_fd == <<"stdout">>
stderr_fd == <<"stderr">>
DEBUG == <<"D", "E", "B", "U", "G">>
RootLogger == <<>>

LogRecord(lg, msg) == [logger |-> lg.logger, level |-> lg.level, msg |-> msg]

\* the state of the reading side of a pipe: the bytes in it, and whether the
\* reader is at end of stream (every writer has closed)
NewPipe == [data |-> <<>>, hup |-> FALSE]

\* what poll reports for a registered descriptor ({} is no event)
PollReason(p) ==
    (IF p.data # <<>> THEN {"POLLIN"} ELSE {})
    \cup (IF p.hup THEN {"POLLHUP"} ELSE {})

\* str.splitlines(True)
RECURSIVE SplitLines(_, _)
SplitLines(s, acc) ==
    IF s = <<>> THEN (IF acc = <<>> THEN <<>> ELSE <<acc>>)
    ELSE IF Head(s) = "\r" /\ Len(s) > 1 /\ s[2] = "\n" THEN
        <<acc \o <<"\r", "\n">>>> \o SplitLines(Drop(s, 2), <<>>)
    ELSE IF Head(s) \in {"\n", "\r"} THEN
        <<Append(acc, Head(s))>> \o SplitLines(Tail(s), <<>>)
    ELSE SplitLines(Tail(s), Append(acc, Head(s)))

ChopNewline(line) ==
    IF line # <<>> /\ line[Len(line)] = "\n" THEN SubSeq(line, 1, Len(line) - 1) ELSE line

\* the line assembly of the loop body: [buffer, lines to emit]
AssembleLines(buf, new_bytes) ==
    LET chopped(whole) == [k \in 1..Len(whole) |-> ChopNewline(whole[k])]
        assembled(lines, tail) ==
            IF tail[Len(tail)] # "\n"
            THEN [buffer |-> tail, lines |-> chopped(SubSeq(lines, 1, Len(lines) - 1))]
            ELSE [buffer |-> <<>>, lines |-> chopped(lines)]
        split(lines) == assembled(lines, lines[Len(lines)])
    IN CHOOSE r \in {split(lines) : lines \in {SplitLines(buf \o new_bytes, <<>>)}} : TRUE

Without(f, k) == [x \in DOMAIN f \ {k} |-> f[x]]

\* flush_buffer(fd) on the multiplexer state m
flush_buffer(m, fd) ==
    [m EXCEPT !.log = IF m.buffers[fd] # <<>>
                      THEN Append(@, LogRecord(m.loggers[fd], m.buffers[fd])) ELSE @,
              !.buffers = Without(@, fd)]

\* open_fifo that logs the FIFO through the logger and level of the child's
\* own streams
open_fifo_as_stream(m, fifo_filename, lg) ==
    [m EXCEPT !.loggers = Put(@, fifo_filename, [logger |-> RootLogger, level |-> DEBUG]),
              !.buffers = Put(@, fifo_filename, <<>>),
              !.fd_to_logpipe = Put(@, fifo_filename, fifo_filename),
              !.registered = @ \cup {fifo_filename},
              !.pipes = Put(@, fifo_filename, NewPipe)]

\* open_fifo(fifo_filename, logger, level): the descriptor is named by the
\* FIFO it reads
open_fifo(m, fifo_filename, lg) ==
    [m EXCEPT !.loggers = Put(@, fifo_filename, lg),
              !.buffers = Put(@, fifo_filename, <<>>),
              !.fd_to_logpipe = Put(@, fifo_filename, fifo_filename),
              !.registered = @ \cup {fifo_filename},
              !.pipes = Put(@, fifo_filename, NewPipe)]

\* close_fifo that flushes the buffer and leaves the descriptor open and
\* registered
close_fifo_flush_only(m, fd) == [flush_buffer(m, fd) EXCEPT !.buffers = Put(@, fd, <<>>)]

close_fifo(m, fd) ==
    LET f == flush_buffer(m, fd)
    IN [f EXCEPT !.registered = @ \ {fd},
                 !.loggers = Without(@, fd),
                 !.fd_to_logpipe = Without(@, fd),
                 !.pipes = Without(@, fd)]

\* reopen_fifo that keeps the descriptor whose writers have all closed
reopen_fifo_keeps_fd(m, fd) == m

reopen_fifo(m, fd) == open_fifo(close_fifo(m, fd), m.fd_to_logpipe[fd], m.loggers[fd])

\* the body of `for fd, reason in events` for one event
HandleEvent(m, fd, reason, capture) ==
    IF "POLLHUP" \in reason /\ "POLLIN" \notin reason THEN
        IF fd \in DOMAIN m.fd_to_logpipe THEN reopen_fifo(m, fd)
        ELSE IF fd \in {stdout_fd, stderr_fd} THEN [m EXCEPT !.registered = @ \ {fd}]
        ELSE m
    ELSE IF "POLLIN" \in reason THEN
        LET logged(rd, a) ==
                [rd EXCEPT !.buffers[fd] = a.buffer,
                           !.log = @ \o [j \in 1..Len(a.lines) |->
                                            LogRecord(m.loggers[fd], a.lines[j])]]
            taken(new_bytes, rd) ==
                IF capture /\ fd = stdout_fd THEN [rd EXCEPT !.stdout_to = @ \o new_bytes]
                ELSE CHOOSE r \in {logged(rd, a) :
                                      a \in {AssembleLines(m.buffers[fd], new_bytes)}} : TRUE
            read(avail, k) ==
                taken(SubSeq(avail, 1, k), [m EXCEPT !.pipes[fd].data = Drop(avail, k)])
            os_read(avail) == read(avail, Min(Len(avail), LOG_PIPE_BUFSIZE))
        IN os_read(m.pipes[fd].data)
    ELSE m

\* a set of descriptors in the order poll lists them: the child's stdout and
\* stderr first, the FIFOs after them
RECURSIVE FdOrder(_)
FdOrder(fds) ==
    IF fds = {} THEN <<>>
    ELSE LET fd == IF stdout_fd \in fds THEN stdout_fd
                   ELSE IF stderr_fd \in fds THEN stderr_fd
                   ELSE CHOOSE f \in fds : TRUE
         IN <<fd>> \o FdOrder(fds \ {fd})

RECURSIVE HandleEvents(_, _, _, _)
HandleEvents(m, order, evs, capture) ==
    IF order = <<>> THEN m
    ELSE \* h is bound to the state after the first event, computed once
         CHOOSE r \in {HandleEvents(h, Tail(order), evs, capture) :
                          h \in {HandleEvent(m, Head(order), evs[Head(order)], capture)}} :
             TRUE

\* the code after the loop, up to proc.wait(): the residual buffers are
\* flushed and the FIFO readers closed
RECURSIVE CloseFifos(_, _)
CloseFifos(m, order) ==
    IF order = <<>> THEN m
    ELSE CHOOSE r \in {CloseFifos(c, Tail(order)) : c \in {close_fifo(m, Head(order))}} :
             TRUE

\* the code after the loop without the two flush_buffer calls
AfterLoopNoFlush(m) == CloseFifos(m, FdOrder(DOMAIN m.fd_to_logpipe))

AfterLoop(m) ==
    CloseFifos(flush_buffer(flush_buffer(m, stderr_fd), stdout_fd),
               FdOrder(DOMAIN m.fd_to_logpipe))

\* the registration of the child's pipes and of every FIFO of the registry
RECURSIVE OpenFifos(_, _, _)
OpenFifos(m, registry, keys) ==
    IF keys = {} THEN m
    ELSE LET k == CHOOSE x \in keys : TRUE
         IN OpenFifos(open_fifo(m, registry[k], [logger |-> k[1], level |-> k[2]]),
                      registry, keys \ {k})

StartMux(registry, log0) ==
    OpenFifos([registered |-> {stdout_fd, stderr_fd},
               loggers |-> [fd \in {stdout_fd, stderr_fd} |->
                               [logger |-> RootLogger, level |-> DEBUG]],
               buffers |-> [fd \in {stdout_fd, stderr_fd} |-> <<>>],
               fd_to_logpipe |-> EmptyEnv,
               pipes |-> [fd \in {stdout_fd, stderr_fd} |-> NewPipe],
               stdout_to |-> <<>>,
               log |-> log0],
              registry, DOMAIN registry)

(***************************************************************************)
(* The state of one call of run_job                                        *)
(***************************************************************************)
VARIABLES
    pc,                 \* where run_job is: construct, run, poll, body, finally, done
    exc,                \* the exception in flight (None if none)
    result,             \* what run_job returned or raised
    arg_temp_dir,       \* the caller's temp_dir argument (NoPath for None)
    temp_dir,           \* executor.temp_dir
    rm_temp_dir,        \* executor.rm_temp_dir
    dirs,               \* the directories that exist
    fs,                 \* the files that exist, with their contents
    log_fifo_filenames, \* executor.log_fifo_filenames
    stack,              \* the frames of run_job and of the handle_commands calls
    budget,             \* nodes the job may still hold within MaxNodes
    last_env,           \* executor.last_env
    last_cwd,           \* executor.last_cwd
    cur,                \* the locals of handle_command_nodes while a child runs
    proc,               \* the child process; history: the bytes written to each
                        \* stream while it runs
    mux,                \* the locals of logged_check_call, the pipes, and the
                        \* records logged from the streams of the latest child
    events,             \* what poller.poll returned
    last,               \* history: the latest run_node call
    ran,                \* history: the latest leaf whose command completed
    nrun,               \* history: calls of run_node
    nspawn,             \* history: children spawned
    interp              \* the interpreter's logger.level and sys.stdout

vars == <<pc, exc, result, arg_temp_dir, temp_dir, rm_temp_dir, dirs, fs,
          log_fifo_filenames, stack, budget, last_env, last_cwd, cur, proc, mux,
          events, last, ran, nrun, nspawn, interp>>

NoPath == <<>>
SomeEnv(e) == [some |-> TRUE, env |-> e]
NoEnv == [some |-> FALSE, env |-> EmptyEnv]
NoTv == [set |-> FALSE, var |-> <<>>, raw |-> <<>>]
NoCur == [node |-> BaseNode, node_env |-> EmptyEnv, node_cwd |-> NoPath, args |-> <<>>,
          sink |-> "none", file |-> NoPath, scope |-> EmptyEnv, ins |-> EmptyEnv]
NoProc == [state |-> "none", retcode |-> 0, nw |-> 0, sent |-> EmptyEnv]
NoLast == [node |-> BaseNode, pos |-> <<>>, depth |-> 0, handler |-> None,
           status |-> None, before |-> EmptyEnv]
NoRan == [some |-> FALSE, scope |-> EmptyEnv, ins |-> EmptyEnv]
IdleMux == [registered |-> {}, loggers |-> EmptyEnv, buffers |-> EmptyEnv,
            fd_to_logpipe |-> EmptyEnv, pipes |-> EmptyEnv, stdout_to |-> <<>>,
            log |-> <<>>]
Pending == [kind |-> "pending", env |-> NoEnv, exc |-> None]

\* a frame: the env and cwd of a scope, the position of the node that opened
\* it, the index i of the child run_node is called on next and the number n
\* of children; history: the node, the enclosing env when the scope was
\* opened, and the latest to_var assignment made in this scope
Frame(env, cwd, pos, n, node, entry) ==
    [env |-> env, cwd |-> cwd, pos |-> pos, i |-> 0, n |-> n, node |-> node,
     entry |-> entry, tv |-> NoTv]

Top == stack[Len(stack)]
SetTop(stk, f) == [stk EXCEPT ![Len(stk)] = f]

\* the node_pos run_node is called with for the next child of the top frame
ChildPos == IF Len(stack) = 1 THEN <<>> ELSE Append(Top.pos, Top.i)

ExistingFiles == {EmptyEnv, Put(EmptyEnv, GivenTempDir \o <<"/", "z">>, <<>>)}

\* logging's numeric levels
LevelNo(name) ==
    CASE name = "DEBUG" -> 10 [] name = "INFO" -> 20 [] name = "WARNING" -> 30
      [] name = "ERROR" -> 40 [] name = "CRITICAL" -> 50

\* the interpreter as run_job finds it: the logger at INFO, sys.stdout the
\* process's own stdout
Interp0 == [level |-> LevelNo("INFO"), stdout |-> "stdout"]

Init ==
    /\ pc = "construct"
    /\ exc = None
    /\ result = Pending
    /\ arg_temp_dir \in {NoPath, GivenTempDir}
    /\ temp_dir = NoPath
    /\ rm_temp_dir = FALSE
    /\ dirs = {cwd0, GivenTempDir}
    /\ fs \in (IF arg_temp_dir = NoPath THEN {EmptyEnv} ELSE ExistingFiles)
    /\ log_fifo_filenames = EmptyEnv
    /\ \E env \in InitEnvs : stack = <<Frame(env, cwd0, <<>>, 1, BaseNode, env)>>
    /\ budget = MaxNodes - 1
    /\ last_env = NoEnv
    /\ last_cwd = NoPath
    /\ cur = NoCur
    /\ proc = NoProc
    /\ mux = IdleMux
    /\ events = EmptyEnv
    /\ last = NoLast
    /\ ran = NoRan
    /\ nrun = 0
    /\ nspawn = 0
    /\ interp = Interp0

(***************************************************************************)
(* CommandTreeExecution.__init__ and close                                 *)
(***************************************************************************)
Construct ==
    /\ pc = "construct"
    /\ IF arg_temp_dir = NoPath THEN
           /\ rm_temp_dir' = TRUE
           /\ temp_dir' = MadeTempDir
           /\ dirs' = dirs \cup {MadeTempDir}
           /\ pc' = "run"
           /\ UNCHANGED <<exc, result>>
       ELSE IF ListDir(fs, arg_temp_dir) # {} THEN
           /\ exc' = "Exception"
           /\ result' = [kind |-> "raised", env |-> NoEnv, exc |-> "Exception"]
           /\ pc' = "done"
           /\ UNCHANGED <<rm_temp_dir, temp_dir, dirs>>
       ELSE
           /\ rm_temp_dir' = FALSE
           /\ temp_dir' = arg_temp_dir
           /\ pc' = "run"
           /\ UNCHANGED <<exc, result, dirs>>
    /\ UNCHANGED <<arg_temp_dir, fs, log_fifo_filenames, stack, budget, last_env,
                   last_cwd, cur, proc, mux, events, last, ran, nrun, nspawn>>
    /\ UNCHANGED interp

\* close() that removes nothing
closeKeeps(rm, tdir, files, dirset) == [fs |-> files, dirs |-> dirset]

\* close(): what is left of the files and directories
close(rm, tdir, files, dirset) ==
    IF rm THEN [fs |-> RmTree(files, tdir), dirs |-> dirset \ {tdir}]
    ELSE [fs |-> files, dirs |-> dirset]

\* the finally clause of run_job, then its return or the exception's way out
Finally ==
    /\ pc = "finally"
    /\ LET c == close(rm_temp_dir, temp_dir, fs, dirs)
       IN /\ fs' = c.fs
          /\ dirs' = c.dirs
    /\ result' = IF exc = None THEN [kind |-> "returned", env |-> last_env, exc |-> None]
                 ELSE [kind |-> "raised", env |-> NoEnv, exc |-> exc]
    /\ pc' = "done"
    /\ UNCHANGED <<exc, arg_temp_dir, temp_dir, rm_temp_dir, log_fifo_filenames, stack,
                   budget, last_env, last_cwd, cur, proc, mux, events, last, ran, nrun,
                   nspawn>>
    /\ UNCHANGED interp

(***************************************************************************)
(* run_node and the handlers                                               *)
(***************************************************************************)
\* run_node may be called: the top frame has a child left
CanRun == pc = "run" /\ Top.i < Top.n

\* the nodes the job may hold at the next position
NextNodes == NodesFor(budget)

Called(node, handler, status) ==
    [node |-> node, pos |-> ChildPos, depth |-> Len(stack), handler |-> handler,
     status |-> status, before |-> Top.env]

\* an exception leaves through every frame to the finally clause of run_job
Raise(e) == pc' = "finally" /\ exc' = e

\* run_node on a node with no action key or several: InvalidJobSpecError
RunInvalid ==
    /\ CanRun
    /\ \E node \in NextNodes :
        /\ NodeType(node) = None
        /\ Raise("InvalidJobSpecError")
        /\ last' = Called(node, None, "raised")
    /\ nrun' = nrun + 1
    /\ UNCHANGED <<result, arg_temp_dir, temp_dir, rm_temp_dir, dirs, fs,
                   log_fifo_filenames, stack, budget, last_env, last_cwd, cur, proc,
                   mux, events, ran, nspawn>>
    /\ UNCHANGED interp

\* handle_set, handle_prepend_path, ...: the top frame's env is modified
RunEnvMod ==
    /\ CanRun
    /\ \E node \in NextNodes :
        LET modified(t, r) ==
                /\ t \in EnvModTypes
                /\ IF r.ok THEN
                       /\ stack' = SetTop(stack, [Top EXCEPT !.env = r.env, !.i = @ + 1,
                                                             !.tv = IF @.var = node.name
                                                                    THEN NoTv ELSE @])
                       /\ last' = Called(node, t, "ok")
                       /\ UNCHANGED <<pc, exc>>
                   ELSE
                       /\ Raise(r.err)
                       /\ last' = Called(node, t, "raised")
                       /\ UNCHANGED stack
            typed(t) == modified(t, handle_env_mod(node, Top.env, node.name,
                                                   EnvModAction(t), EnvModSep(t)))
        IN typed(NodeType(node))
    /\ nrun' = nrun + 1
    /\ UNCHANGED <<result, arg_temp_dir, temp_dir, rm_temp_dir, dirs, fs,
                   log_fifo_filenames, budget, last_env, last_cwd, cur, proc, mux,
                   events, ran, nspawn>>
    /\ UNCHANGED interp

\* handle_commands on entry: a new scope with a copy of env
PushScope(stk, node, pos) ==
    LET f == stk[Len(stk)]
    IN Append(stk, Frame(f.env, process_cwd(node, f.cwd), pos, node.n, node, f.env))

\* handle_commands on return, with the scope's env written back to the caller's
PopScopeLeaks(stk) ==
    LET below == SubSeq(stk, 1, Len(stk) - 1)
    IN SetTop(below, [below[Len(below)] EXCEPT !.i = @ + 1, !.env = stk[Len(stk)].env])

\* handle_commands on return: the scope is dropped, the caller goes on to its
\* next child
PopScope(stk) ==
    LET below == SubSeq(stk, 1, Len(stk) - 1)
    IN SetTop(below, [below[Len(below)] EXCEPT !.i = @ + 1])

RunCommands ==
    /\ CanRun
    /\ \E node \in NextNodes :
        /\ NodeType(node) = "commands"
        /\ stack' = PushScope(stack, node, ChildPos)
        /\ budget' = budget - node.n
        /\ last' = Called(node, "commands", "running")
    /\ nrun' = nrun + 1
    /\ UNCHANGED <<pc, exc, result, arg_temp_dir, temp_dir, rm_temp_dir, dirs, fs,
                   log_fifo_filenames, last_env, last_cwd, cur, proc, mux, events, ran,
                   nspawn>>
    /\ UNCHANGED interp

ReturnCommands ==
    /\ pc = "run"
    /\ Len(stack) > 1
    /\ Top.i = Top.n
    /\ stack' = PopScope(stack)
    /\ UNCHANGED <<pc, exc, result, arg_temp_dir, temp_dir, rm_temp_dir, dirs, fs,
                   log_fifo_filenames, budget, last_env, last_cwd, cur, proc, mux,
                   events, last, ran, nrun, nspawn>>
    /\ UNCHANGED interp

\* executor.run_node(job_spec, env, cwd, ()) has returned
ReturnRoot ==
    /\ pc = "run"
    /\ Len(stack) = 1
    /\ Top.i = Top.n
    /\ pc' = "finally"
    /\ UNCHANGED <<exc, result, arg_temp_dir, temp_dir, rm_temp_dir, dirs, fs,
                   log_fifo_filenames, stack, budget, last_env, last_cwd, cur, proc,
                   mux, events, last, ran, nrun, nspawn>>
    /\ UNCHANGED interp

\* the sink is closed: what an append_to_file target holds afterwards
SinkClosed(files, sink, file, written) ==
    IF sink = "file" THEN Put(files, file, files[file] \o written) ELSE files

\* handle_command_nodes that records last_env and last_cwd although func raised
FailedLeafRecorded ==
    /\ last_env' = SomeEnv(Top.env)
    /\ last_cwd' = Top.cwd
    /\ UNCHANGED <<stack, ran>>

\* func raised: the exception leaves handle_command_nodes before the to_var
\* assignment and before last_env and last_cwd are set
FailedLeaf == UNCHANGED <<stack, last_env, last_cwd, ran>>

\* the end of handle_command_nodes once func has returned
CompleteLeaf(node, node_env, node_cwd, scope, ins, captured) ==
    LET returned(r) ==
       /\ stack' = SetTop(stack, [Top EXCEPT !.env = r.env, !.i = @ + 1,
                                             !.tv = IF "to_var" \in node.keys
                                                    THEN [set |-> TRUE, var |-> node.to_var,
                                                          raw |-> captured]
                                                    ELSE @])
       /\ last_env' = SomeEnv(r.last_env)
       /\ last_cwd' = node_cwd
       /\ ran' = [some |-> TRUE, scope |-> scope, ins |-> ins]
       /\ cur' = NoCur
       /\ proc' = NoProc
       /\ events' = EmptyEnv
       /\ pc' = "run"
       /\ UNCHANGED exc
    IN returned(LeafResult(node, Top.env, node_env, captured))

\* handle_cmd: up to the Popen of logged_check_call
RunCmd ==
    /\ CanRun
    /\ \E node \in NextNodes, spawned \in BOOLEAN :
        LET called(p) ==
                /\ NodeType(node) = "cmd"
                /\ fs' = p.fs
                /\ IF ~p.ok \/ ~spawned THEN
                       /\ Raise(IF ~p.ok THEN p.err ELSE "OSError")
                       /\ last' = Called(node, "cmd", "raised")
                       /\ UNCHANGED <<cur, proc, mux, nspawn>>
                   ELSE
                       /\ cur' = [node |-> node, node_env |-> p.node_env,
                                  node_cwd |-> p.node_cwd, args |-> p.args,
                                  sink |-> p.sink, file |-> p.file, scope |-> Top.env,
                                  ins |-> p.ins]
                       /\ proc' = [state |-> "running", retcode |-> 0, nw |-> 0,
                                   sent |-> [fd \in {stdout_fd, stderr_fd} |-> <<>>]]
                       /\ mux' = StartMux(log_fifo_filenames, <<>>)
                       /\ nspawn' = nspawn + 1
                       /\ pc' = "poll"
                       /\ last' = Called(node, "cmd", "running")
                       /\ UNCHANGED exc
        IN called(LeafPrepare(node, Top.env, Top.cwd, ChildPos, temp_dir, fs))
    /\ nrun' = nrun + 1
    /\ UNCHANGED <<result, arg_temp_dir, temp_dir, rm_temp_dir, dirs, log_fifo_filenames,
                   stack, budget, last_env, last_cwd, events, ran>>
    /\ UNCHANGED interp

\* handle_hit: the helper runs in-process, so the whole leaf is one step
RunHit ==
    /\ CanRun
    /\ \E node \in NextNodes, o \in HitOutcomes :
        LET called(p, h) ==
                /\ NodeType(node) = "hit"
                /\ IF ~p.ok THEN
                       /\ Raise(p.err)
                       /\ fs' = p.fs
                       /\ last' = Called(node, "hit", "raised")
                       /\ FailedLeaf
                       /\ UNCHANGED <<log_fifo_filenames, cur, proc, events>>
                   ELSE IF ~h.ok THEN
                       /\ Raise(h.err)
                       /\ fs' = SinkClosed(h.fs, p.sink, p.file, h.out)
                       /\ last' = Called(node, "hit", "raised")
                       /\ FailedLeaf
                       /\ UNCHANGED <<log_fifo_filenames, cur, proc, events>>
                   ELSE
                       /\ CompleteLeaf(node, p.node_env, p.node_cwd, Top.env, p.ins,
                                       IF p.sink = "var" THEN h.out ELSE <<>>)
                       /\ fs' = SinkClosed(h.fs, p.sink, p.file, h.out)
                       /\ log_fifo_filenames' = h.registry
                       /\ last' = Called(node, "hit", "ok")
            prepared(p) ==
                called(p, run_hit(p.args, log_fifo_filenames, temp_dir, p.fs, o))
        IN prepared(LeafPrepare(node, Top.env, Top.cwd, ChildPos, temp_dir, fs))
    /\ nrun' = nrun + 1
    /\ UNCHANGED <<result, arg_temp_dir, temp_dir, rm_temp_dir, dirs, budget, mux,
                   nspawn>>
    /\ UNCHANGED interp

(***************************************************************************)
(* The child process, and the poll loop of logged_check_call               *)
(***************************************************************************)
\* what one write() of the child may hold
Chunks == {<<"h">>, <<" ", "h", "\n">>}

InLoop == pc \in {"poll", "body"}

\* the child writes to its stdout or its stderr
ChildWrite ==
    /\ InLoop
    /\ proc.state = "running"
    /\ proc.nw < MaxWrites
    /\ \E fd \in {stdout_fd, stderr_fd}, chunk \in Chunks :
        /\ mux' = [mux EXCEPT !.pipes[fd].data = @ \o chunk]
        /\ proc' = [proc EXCEPT !.nw = @ + 1, !.sent[fd] = @ \o chunk]
    /\ UNCHANGED <<pc, exc, result, arg_temp_dir, temp_dir, rm_temp_dir, dirs, fs,
                   log_fifo_filenames, stack, budget, last_env, last_cwd, cur, events,
                   last, ran, nrun, nspawn>>
    /\ UNCHANGED interp

\* the child terminates: its ends of the pipes are closed
ChildExit ==
    /\ InLoop
    /\ proc.state = "running"
    /\ \E rc \in {0, 1} : proc' = [proc EXCEPT !.state = "exited", !.retcode = rc]
    /\ mux' = [mux EXCEPT !.pipes[stdout_fd].hup = TRUE, !.pipes[stderr_fd].hup = TRUE]
    /\ UNCHANGED <<pc, exc, result, arg_temp_dir, temp_dir, rm_temp_dir, dirs, fs,
                   log_fifo_filenames, stack, budget, last_env, last_cwd, cur, events,
                   last, ran, nrun, nspawn>>
    /\ UNCHANGED interp

\* events = poller.poll(50)
Poll ==
    /\ pc = "poll"
    /\ events' = [fd \in {f \in mux.registered : PollReason(mux.pipes[f]) # {}} |->
                     PollReason(mux.pipes[fd])]
    /\ pc' = "body"
    /\ UNCHANGED <<exc, result, arg_temp_dir, temp_dir, rm_temp_dir, dirs, fs,
                   log_fifo_filenames, stack, budget, last_env, last_cwd, cur, proc, mux,
                   last, ran, nrun, nspawn>>
    /\ UNCHANGED interp

\* the test that ends the loop: no events, and proc.poll() is not None
LoopEnds == DOMAIN events = {} /\ proc.state = "exited"

\* one pass through the loop body that does not break
LoopBody ==
    /\ pc = "body"
    /\ ~LoopEnds
    /\ mux' = HandleEvents(mux, FdOrder(DOMAIN events), events, cur.sink # "none")
    /\ pc' = "poll"
    /\ UNCHANGED <<exc, result, arg_temp_dir, temp_dir, rm_temp_dir, dirs, fs,
                   log_fifo_filenames, stack, budget, last_env, last_cwd, cur, proc,
                   events, last, ran, nrun, nspawn>>
    /\ UNCHANGED interp

\* the break, the code after the loop, and the return through run_cmd to the
\* end of handle_command_nodes (or the CalledProcessError)
LoopBreak ==
    /\ pc = "body"
    /\ LoopEnds
    /\ fs' = SinkClosed(fs, cur.sink, cur.file, mux.stdout_to)
    /\ IF proc.retcode # 0 THEN
           /\ mux' = AfterLoop(mux)
           /\ Raise("CalledProcessError")
           /\ last' = [last EXCEPT !.status = "raised"]
           /\ FailedLeaf
           /\ UNCHANGED <<cur, proc, events>>
       ELSE
           \* the locals of logged_check_call are gone; the log stays
           /\ mux' = [IdleMux EXCEPT !.log = AfterLoop(mux).log]
           /\ CompleteLeaf(cur.node, cur.node_env, cur.node_cwd, cur.scope, cur.ins,
                           mux.stdout_to)
           /\ last' = [last EXCEPT !.status = "ok"]
    /\ UNCHANGED <<result, arg_temp_dir, temp_dir, rm_temp_dir, dirs,
                   log_fifo_filenames, budget, nrun, nspawn>>
    /\ UNCHANGED interp

Next ==
    \/ Construct
    \/ RunInvalid
    \/ RunEnvMod
    \/ RunCommands
    \/ ReturnCommands
    \/ ReturnRoot
    \/ RunCmd
    \/ RunHit
    \/ ChildWrite
    \/ ChildExit
    \/ Poll
    \/ LoopBody
    \/ LoopBreak
    \/ Finally

Spec == Init /\ [][Next]_vars

(***************************************************************************)
(* Properties                                                              *)
(***************************************************************************)
Depth == Len(stack)

\* C1: while a `commands` group runs, and at the moment it has finished, the
\* env of the enclosing scope is what it was when the group started, whatever
\* its subtree did to the group's own env.
C1_GroupLeavesEnclosingEnv ==
    /\ [](\A k \in 2..Depth : stack[k - 1].env = stack[k].entry)
    /\ [][(pc = "run" /\ pc' = "run" /\ Len(stack') < Depth)
            => stack'[Len(stack')].env = Top.entry]_vars

\* a group that ran a to_var leaf (its own env was given X) has returned to
\* the root scope, which has no X
C1_Witness ==
    /\ pc = "run"
    /\ Depth = 1
    /\ Top.i = 1
    /\ last.depth = 2
    /\ last.status = "ok"
    /\ "to_var" \in last.node.keys
    /\ last.node.to_var \notin DOMAIN last.before
    /\ last.node.to_var \notin DOMAIN Top.env

\* C2: after a leaf with to_var: V has completed, the env of the enclosing
\* scope binds V to the captured stdout stripped, and the leaves that follow
\* in the same group run with that binding in their environment.
C2_ToVarEscapes ==
    /\ \A k \in 1..Depth :
          stack[k].tv.set =>
              /\ stack[k].tv.var \in DOMAIN stack[k].env
              /\ stack[k].env[stack[k].tv.var] = Strip(stack[k].tv.raw)
    /\ (InLoop /\ Top.tv.set /\ Top.tv.var \notin DOMAIN cur.ins)
          => /\ Top.tv.var \in DOMAIN cur.node_env
             /\ cur.node_env[Top.tv.var] = Strip(Top.tv.raw)
    /\ (/\ pc = "run"
        /\ last.handler \in {"cmd", "hit"}
        /\ last.status = "ok"
        /\ last.depth = Depth
        /\ "to_var" \notin last.node.keys
        /\ Top.tv.set
        /\ Top.tv.var \notin DOMAIN ran.ins)
          => /\ Top.tv.var \in DOMAIN last_env.env
             /\ last_env.env[Top.tv.var] = Strip(Top.tv.raw)

\* a child is running whose earlier sibling captured " h\n" into X: the
\* child's environment has X = "h"
C2_Witness ==
    /\ pc = "poll"
    /\ Top.tv.set
    /\ Top.tv.raw = <<" ", "h", "\n">>
    /\ Top.tv.var \notin DOMAIN Top.entry
    /\ cur.node_env[Top.tv.var] = <<"h">>

\* C3: for a job whose only node is a cmd leaf with to_var: X, the env that
\* run_job returns binds X to the stripped stdout of the command.
C3_SingleToVarReturned ==
    (/\ pc = "done"
     /\ result.kind = "returned"
     /\ nrun = 1
     /\ last.handler = "cmd"
     /\ "to_var" \in last.node.keys)
      => /\ result.env.some
         /\ last.node.to_var \in DOMAIN result.env.env
         /\ result.env.env[last.node.to_var] = Strip(stack[1].tv.raw)

RECURSIVE Residual(_, _)
Residual(m, order) ==
    IF order = <<>> THEN <<>>
    ELSE (IF m.buffers[Head(order)] # <<>>
          THEN <<LogRecord(m.loggers[Head(order)], m.buffers[Head(order)])>>
          ELSE <<>>) \o Residual(m, Tail(order))

C6_TempDirTeardown ==
    /\ (pc = "done" /\ temp_dir # NoPath /\ rm_temp_dir)
          => (temp_dir \notin dirs /\ ListDir(fs, temp_dir) = {})
    /\ (temp_dir # NoPath) => (rm_temp_dir <=> arg_temp_dir = NoPath)
    /\ (arg_temp_dir # NoPath)
          => /\ arg_temp_dir \in dirs
             /\ temp_dir \in {NoPath, arg_temp_dir}
             /\ (arg_temp_dir \o <<"/", "z">>) \in DOMAIN fs
                   => /\ nrun = 0
                      /\ temp_dir = NoPath
                      /\ pc \in {"construct", "done"}
                      /\ pc = "done" => result.exc = "Exception"

\* run_job has raised a child's failure; the executor's own temp_dir, into
\* which an earlier leaf's input file was written, is gone
C6_Witness ==
    /\ pc = "done"
    /\ rm_temp_dir
    /\ exc = "CalledProcessError"
    /\ ran.some
    /\ in0 \in DOMAIN ran.ins
    /\ IsPrefix(temp_dir, ran.ins[in0])
    /\ temp_dir \notin dirs
    /\ ran.ins[in0] \notin DOMAIN fs

ActionKeys(node) == node.keys \cap TypeKeySet

\* C7: a handler runs only for a node with exactly one of the eight action
\* keys, and it is the handler of that key; run_node on any other node raises
\* InvalidJobSpecError and changes no env, not last_env, no file and spawns
\* nothing.
C7_ExactlyOneActionKey ==
    /\ [](last.handler # None
            => (Cardinality(ActionKeys(last.node)) = 1 /\ last.handler \in last.node.keys))
    /\ [][(nrun' = nrun + 1 /\ Cardinality(ActionKeys(last'.node)) # 1)
            => /\ last'.handler = None
               /\ pc' = "finally"
               /\ exc' = "InvalidJobSpecError"
               /\ stack' = stack
               /\ last_env' = last_env /\ last_cwd' = last_cwd
               /\ nspawn' = nspawn
               /\ fs' = fs
               /\ log_fifo_filenames' = log_fifo_filenames]_vars

\* the second child of a group, a node with both `set` and `cmd`, was refused
C7_Witness ==
    /\ exc = "InvalidJobSpecError"
    /\ ActionKeys(last.node) = {"set", "cmd"}
    /\ last.handler = None
    /\ Top.i = 1
    /\ nspawn = 1

CommandsModifiers == {"to_var", "append_to_file", "inputs"}

\* C8: a `commands` node that carries to_var, append_to_file or inputs is
\* rejected as an invalid job spec, and none of its children is executed.
C8_CommandsModifiersRejected ==
    /\ ("commands" \in last.node.keys /\ last.node.keys \cap CommandsModifiers # {})
          => last.status = "raised"
    /\ \A k \in 2..Depth :
          stack[k].node.keys \cap CommandsModifiers # {} => stack[k].i = 0

\* C9: a cmd/hit leaf that carries both to_var and append_to_file is rejected
\* as an invalid job spec: no command runs, no variable is assigned, no file
\* is opened.
C9_BothSinksRejected ==
    (last.handler \in {"cmd", "hit"}
     /\ {"to_var", "append_to_file"} \subseteq last.node.keys)
      => /\ last.status = "raised"
         /\ cur = NoCur
         /\ Top.tv.set => Top.tv.var # last.node.to_var

IsPrepend(t) == t \in {"prepend_path", "prepend_flag"}
SepOf(t) == IF t \in {"prepend_path", "append_path"} THEN pathsep ELSE <<" ">>

\* C10: an env-mutator node on N whose value substitutes to v leaves every
\* other variable of the scope alone and makes N: v for `set` or when N was
\* absent or empty, else v + sep + old for prepend_* and old + sep + v for
\* append_*, sep being the path separator for *_path and a space for *_flag.
\* Hence prepend_path of a to an absent N followed by prepend_path of b
\* gives b + pathsep + a.
C10_EnvMutators ==
    /\ [][(nrun' = nrun + 1 /\ last'.handler \in EnvModTypes /\ last'.status = "ok")
            => LET t == last'.handler
                   N == last'.node.name
                   old == Top.env
                   new == stack'[Depth].env
                   v == self_substitute(last'.node.value, old).val
               IN /\ stack' = [stack EXCEPT ![Depth].env = new, ![Depth].i = @ + 1,
                                            ![Depth].tv = stack'[Depth].tv]
                  /\ DOMAIN new = DOMAIN old \cup {N}
                  /\ \A x \in DOMAIN old \ {N} : new[x] = old[x]
                  /\ new[N] = IF t = "set" \/ N \notin DOMAIN old \/ old[N] = <<>> THEN v
                              ELSE IF IsPrepend(t) THEN v \o SepOf(t) \o old[N]
                              ELSE old[N] \o SepOf(t) \o v]_vars
    /\ [][(/\ last.handler = "prepend_path" /\ last.status = "ok" /\ last.depth = Depth
           /\ last.node.name \notin DOMAIN last.before
           /\ nrun' = nrun + 1
           /\ last'.handler = "prepend_path" /\ last'.status = "ok"
           /\ last'.node.name = last.node.name
           /\ last.node.value = <<"a">> /\ last'.node.value = <<"b">>)
            => stack'[Depth].env[last.node.name] = <<"b">> \o pathsep \o <<"a">>]_vars

\* FOO, absent when the group started, is b:a after a prepend_path of b to
\* FOO = a
C10_Witness ==
    /\ Depth = 2
    /\ Top.i = 2
    /\ FOO \notin DOMAIN Top.entry
    /\ last.handler = "prepend_path"
    /\ last.status = "ok"
    /\ last.node.value = <<"b">>
    /\ last.before = Put(Top.entry, FOO, <<"a">>)
    /\ Top.env[FOO] = <<"b", ":", "a">>

(***************************************************************************)
(* A job of one `set` node whose value is any short string: substitute on  *)
(* every string over the characters its rules speak of                     *)
(***************************************************************************)
\* the length of the strings substitute is applied to
MaxLen == 4

SubstChars == {"\\", "$", "X", "{", "}"}

SubstStrings == UNION {[1..k -> SubstChars] : k \in 0..MaxLen}

\* handle_set on {"set": FOO, "value": x} as the job's root node
SubstituteValue ==
    /\ CanRun
    /\ Len(stack) = 1
    /\ \E x \in SubstStrings :
        LET node == EnvModNode("set", FOO, x)
            modified(r) ==
                IF r.ok THEN
                    /\ stack' = SetTop(stack, [Top EXCEPT !.env = r.env, !.i = @ + 1])
                    /\ last' = Called(node, "set", "ok")
                    /\ UNCHANGED <<pc, exc>>
                ELSE
                    /\ Raise(r.err)
                    /\ last' = Called(node, "set", "raised")
                    /\ UNCHANGED stack
        IN modified(handle_env_mod(node, Top.env, node.name, EnvModAction("set"),
                                   EnvModSep("set")))
    /\ nrun' = nrun + 1
    /\ UNCHANGED <<result, arg_temp_dir, temp_dir, rm_temp_dir, dirs, fs,
                   log_fifo_filenames, budget, last_env, last_cwd, cur, proc, mux,
                   events, ran, nspawn>>
    /\ UNCHANGED interp

SubstNext ==
    \/ Construct
    \/ SubstituteValue
    \/ ReturnRoot
    \/ Finally

SubstSpec == Init /\ [][SubstNext]_vars

\* the escape rules read left to right: two backslashes give one, backslash
\* dollar gives a dollar, any other character (a lone backslash too) stays;
\* an unescaped dollar is outside these rules
RECURSIVE EscapeRules(_)
EscapeRules(x) ==
    LET then(c, r) == IF r.ok THEN Ok(<<c>> \o r.val) ELSE r
    IN IF x = <<>> THEN Ok(<<>>)
       ELSE IF Len(x) >= 2 /\ x[1] = "\\" /\ x[2] = "\\" THEN then("\\", EscapeRules(Drop(x, 2)))
       ELSE IF Len(x) >= 2 /\ x[1] = "\\" /\ x[2] = "$" THEN then("$", EscapeRules(Drop(x, 2)))
       ELSE IF x[1] = "$" THEN Err("reference")
       ELSE then(x[1], EscapeRules(Tail(x)))

\* C11: on a string whose dollars are all escaped, substitute succeeds and
\* gives the string with every two consecutive backslashes made one, every
\* backslash-dollar made a literal dollar, and a lone backslash before any
\* other character kept.
C11_EscapeRulesApplied ==
    (last.handler = "set" /\ Len(stack) = 1 /\ EscapeRules(last.node.value).ok)
      => /\ last.status = "ok"
         /\ stack[1].env[FOO] = EscapeRules(last.node.value).val

\* the names a string without backslashes refers to as $NAME or ${NAME}
RECURSIVE References(_)
References(x) ==
    IF x = <<>> THEN {}
    ELSE IF x[1] # "$" THEN References(Tail(x))
    ELSE IF IdLen(Tail(x)) > 0 THEN
        {SubSeq(x, 2, IdLen(Tail(x)) + 1)} \cup References(Drop(x, IdLen(Tail(x)) + 1))
    ELSE IF /\ Len(x) >= 2 /\ x[2] = "{"
            /\ IdLen(Drop(x, 2)) > 0
            /\ Len(x) >= IdLen(Drop(x, 2)) + 3
            /\ x[IdLen(Drop(x, 2)) + 3] = "}" THEN
        {SubSeq(x, 3, IdLen(Drop(x, 2)) + 2)} \cup References(Drop(x, IdLen(Drop(x, 2)) + 3))
    ELSE References(Tail(x))

\* C12: substitute(s, e) succeeds exactly when every $NAME / ${NAME} of s
\* names a variable of e and s holds no $$; and when it fails, it fails with
\* the executor's unknown-variable error.  Stated for the strings without
\* backslashes, where no escape is in play.
C12_SubstitutionTotality ==
    (last.handler = "set" /\ Len(stack) = 1 /\ ~Contains(last.node.value, <<"\\">>))
      => /\ last.status = "ok"
              <=> /\ References(last.node.value) \subseteq DOMAIN last.before
                  /\ ~Contains(last.node.value, <<"$", "$">>)
         /\ last.status = "raised" => exc = "ValueError"

\* C13: the cwd string of a node is substituted against the node's
\* environment before it is joined to the inherited working directory: a leaf
\* whose command runs, and a group whose children run, has the inherited
\* directory joined with the substituted string as its working directory.
C13_CwdSubstituted ==
    /\ (cur # NoCur /\ "cwd" \in cur.node.keys)
          => /\ self_substitute(cur.node.cwd, cur.node_env).ok
             /\ cur.node_cwd = pjoin(Top.cwd, self_substitute(cur.node.cwd, cur.node_env).val)
    /\ \A k \in 2..Depth :
          "cwd" \in stack[k].node.keys
             => /\ self_substitute(stack[k].node.cwd, stack[k].entry).ok
                /\ stack[k].cwd
                      = pjoin(stack[k - 1].cwd,
                              self_substitute(stack[k].node.cwd, stack[k].entry).val)

(***************************************************************************)
(* Jobs of `hit logpipe` and cmd leaves whose children write several times *)
(* to their stdout and stderr and to the log FIFOs                         *)
(***************************************************************************)
\* write() calls on the streams of one child in these jobs
MaxMuxWrites == 2

\* the nodes of a job whose children's streams are followed
MaxMuxNodes == 4

\* what one write() may hold here: a partial line, a line, a line with a
\* carriage return inside
MuxChunks == {<<"h">>, <<"h", "\n">>, <<"a", "\r", "b", "\n">>}

MuxLeaves == {LogPipe1, WithToVar(LogPipe1, XVAR), Cmd1, WithToVar(Cmd1, XVAR)}

MuxInit ==
    /\ pc = "construct"
    /\ exc = None
    /\ result = Pending
    /\ arg_temp_dir = NoPath
    /\ temp_dir = NoPath
    /\ rm_temp_dir = FALSE
    /\ dirs = {cwd0, GivenTempDir}
    /\ fs = EmptyEnv
    /\ log_fifo_filenames = EmptyEnv
    /\ stack = <<Frame(EmptyEnv, cwd0, <<>>, 1, BaseNode, EmptyEnv)>>
    /\ budget = MaxMuxNodes - 1
    /\ last_env = NoEnv
    /\ last_cwd = NoPath
    /\ cur = NoCur
    /\ proc = NoProc
    /\ mux = IdleMux
    /\ events = EmptyEnv
    /\ last = NoLast
    /\ ran = NoRan
    /\ nrun = 0
    /\ nspawn = 0
    /\ interp = Interp0

MuxRunCommands == RunCommands /\ last'.node \in {GroupNode(n) : n \in 1..MaxMuxNodes}

MuxRunHit == RunHit /\ last'.node \in MuxLeaves

MuxRunCmd == RunCmd /\ last'.node \in MuxLeaves

\* the child writes to its stdout or its stderr
MuxWrite ==
    /\ InLoop
    /\ proc.state = "running"
    /\ proc.nw < MaxMuxWrites
    /\ \E fd \in {stdout_fd, stderr_fd}, chunk \in MuxChunks :
        /\ mux' = [mux EXCEPT !.pipes[fd].data = @ \o chunk]
        /\ proc' = [proc EXCEPT !.nw = @ + 1, !.sent[fd] = @ \o chunk]
    /\ UNCHANGED <<pc, exc, result, arg_temp_dir, temp_dir, rm_temp_dir, dirs, fs,
                   log_fifo_filenames, stack, budget, last_env, last_cwd, cur, events,
                   last, ran, nrun, nspawn>>
    /\ UNCHANGED interp

\* a process started by the child opens a log FIFO the loop is reading,
\* writes to it and closes it
FifoWrite ==
    /\ InLoop
    /\ proc.state = "running"
    /\ proc.nw < MaxMuxWrites
    /\ \E fd \in DOMAIN mux.fd_to_logpipe, chunk \in MuxChunks :
        /\ mux' = [mux EXCEPT !.pipes[fd] = [data |-> @.data \o chunk, hup |-> TRUE]]
        /\ proc' = [proc EXCEPT !.nw = @ + 1,
                                !.sent = Put(@, fd, (IF fd \in DOMAIN @ THEN @[fd] ELSE <<>>)
                                                       \o chunk)]
    /\ UNCHANGED <<pc, exc, result, arg_temp_dir, temp_dir, rm_temp_dir, dirs, fs,
                   log_fifo_filenames, stack, budget, last_env, last_cwd, cur, events,
                   last, ran, nrun, nspawn>>
    /\ UNCHANGED interp

MuxNext ==
    \/ Construct
    \/ MuxRunCommands
    \/ MuxRunHit
    \/ MuxRunCmd
    \/ MuxWrite
    \/ FifoWrite
    \/ ChildExit
    \/ Poll
    \/ LoopBody
    \/ LoopBreak
    \/ ReturnCommands
    \/ ReturnRoot
    \/ Finally

MuxSpec == MuxInit /\ [][MuxNext]_vars

\* the log records a byte stream stands for: one per newline-terminated
\* line, without the newline, and one for an unterminated last line
RECURSIVE NewlineLines(_, _)
NewlineLines(s, acc) ==
    IF s = <<>> THEN (IF acc = <<>> THEN <<>> ELSE <<acc>>)
    ELSE IF Head(s) = "\n" THEN <<acc>> \o NewlineLines(Tail(s), <<>>)
    ELSE NewlineLines(Tail(s), Append(acc, Head(s)))

\* log is an interleaving of a and b that keeps the order of each
RECURSIVE IsMerge(_, _, _)
IsMerge(log, a, b) ==
    IF log = <<>> THEN a = <<>> /\ b = <<>>
    ELSE \/ a # <<>> /\ Head(a) = Head(log) /\ IsMerge(Tail(log), Tail(a), b)
         \/ b # <<>> /\ Head(b) = Head(log) /\ IsMerge(Tail(log), a, Tail(b))

\* the records of the latest child logged through the root logger
RootRecords(log) ==
    LET root(r) == r.logger = RootLogger
    IN SelectSeq(log, root)

\* every byte written to the child's streams had been read when the loop ended
AllRead == \A fd \in DOMAIN mux.pipes : mux.pipes[fd].data = <<>>

\* C14: when logged_check_call is over, the records logged from the child's
\* stderr, and from its stdout when no sink is given, are one record per
\* newline-terminated line written to that stream (and one for an
\* unterminated last line), at the stream's level, newline removed, each
\* stream's records in byte order and none mixing the two streams.  Stated
\* for the calls in which nothing written was left unread at the end.
C14_LineFraming ==
    [][(pc = "body" /\ LoopEnds /\ AllRead /\ pc' # "body")
         => /\ \A k \in 1..Len(RootRecords(mux'.log)) :
                  RootRecords(mux'.log)[k].level = DEBUG
            /\ IsMerge([k \in 1..Len(RootRecords(mux'.log)) |-> RootRecords(mux'.log)[k].msg],
                       NewlineLines(proc.sent[stderr_fd], <<>>),
                       IF cur.sink = "none" THEN NewlineLines(proc.sent[stdout_fd], <<>>)
                       ELSE <<>>)]_vars

\* the messages of a sequence of log records
Messages(records) == [k \in 1..Len(records) |-> records[k].msg]

\* C15: when the loop of logged_check_call ends for a child whose stdout
\* has a sink (to_var or append_to_file), what was written to the sink is
\* exactly the bytes the child wrote to stdout, in order; no record comes
\* from stdout: the root-logger records are the line records of stderr
\* alone (compared for the stderr streams without a carriage return, whose
\* framing is C14's subject).
C15_SinkVerbatim ==
    (pc = "body" /\ LoopEnds /\ cur # NoCur /\ cur.sink # "none")
        => /\ mux.stdout_to = proc.sent[stdout_fd]
           /\ ~Contains(proc.sent[stderr_fd], <<"\r">>)
                => Messages(RootRecords(AfterLoop(mux).log))
                       = NewlineLines(proc.sent[stderr_fd], <<>>)

\* C15 for the calls in which nothing written was left unread at the end
C15_SinkVerbatimOfBytesRead ==
    AllRead => C15_SinkVerbatim

\* the bytes written to a stream of the running child so far
SentTo(fd) == IF fd \in DOMAIN proc.sent THEN proc.sent[fd] ELSE <<>>

\* a sequence of strings joined end to end
RECURSIVE Flatten(_)
Flatten(ss) == IF ss = <<>> THEN <<>> ELSE Head(ss) \o Flatten(Tail(ss))

\* a string without its newlines
NoNewlines(s) ==
    LET kept(c) == c # "\n"
    IN SelectSeq(s, kept)

\* the records of a log made through the logger and level lg
RecordsOf(log, lg) ==
    LET same(r) == r.logger = lg.logger /\ r.level = lg.level
    IN SelectSeq(log, same)

\* the FIFO descriptors whose event is end of stream with nothing pending
HupOnly == {fd \in DOMAIN events \cap DOMAIN mux.fd_to_logpipe : events[fd] = {"POLLHUP"}}

\* C16 (re-arming): in a pass of the loop body, a FIFO descriptor that
\* reported POLLHUP without POLLIN has its buffered partial line logged as
\* one record through its logger, and is open again afterwards on the same
\* path, registered, with the same logger and level and an empty buffer; a
\* stdout or stderr descriptor that reported it is no longer registered, and
\* no pass registers one of the two again.
C16_FifoRearmed ==
    [][(pc = "body" /\ pc' = "poll")
         => /\ \A fd \in HupOnly :
                  /\ fd \in mux'.registered
                  /\ mux'.fd_to_logpipe[fd] = mux.fd_to_logpipe[fd]
                  /\ mux'.loggers[fd] = mux.loggers[fd]
                  /\ mux'.buffers[fd] = <<>>
                  /\ Messages(RecordsOf(mux'.log, mux.loggers[fd]))
                       = Messages(RecordsOf(mux.log, mux.loggers[fd]))
                           \o (IF mux.buffers[fd] = <<>> THEN <<>> ELSE <<mux.buffers[fd]>>)
            /\ \A fd \in {stdout_fd, stderr_fd} :
                  /\ (fd \in DOMAIN events /\ events[fd] = {"POLLHUP"})
                        => fd \notin mux'.registered
                  /\ fd \notin mux.registered => fd \notin mux'.registered]_vars

\* C16 (later writers): when the loop ends with nothing left unread in any
\* pipe, every byte that the writers of a log FIFO wrote while the child ran
\* is in the records logged through the FIFO's logger at its level, in order.
C16_LaterWritersLogged ==
    (pc = "body" /\ LoopEnds /\ AllRead)
        => \A fd \in DOMAIN mux.fd_to_logpipe :
              Flatten(Messages(RecordsOf(AfterLoop(mux).log, mux.loggers[fd])))
                  = NoNewlines(SentTo(fd))

\* the logger and level that a key of the registry stands for
KeyLogger(k) == [logger |-> k[1], level |-> k[2]]

\* the (heading, level) that a `hit logpipe` leaf names
LogPipeKey(node) == <<node.args[2], node.args[3]>>

IsLogPipe(node) == "hit" \in node.keys /\ Len(node.args) = 3 /\ node.args[1] = logpipe

\* the bytes logged or held back so far for the descriptor fd of logger lg
Delivered(m, fd, lg) == Flatten(Messages(RecordsOf(m.log, lg))) \o m.buffers[fd]

\* C17: no step removes an entry of the registry or changes the path it
\* maps to.  A `hit logpipe H L` that succeeds leaves (H, L) mapped to a
\* path; one that finds (H, L) registered adds no entry, creates no file,
\* and prints the registered path (seen in the buffer of to_var).  While a
\* child runs, in whatever scope it was spawned, every FIFO of the registry
\* is open and registered with the poller under sub-logger H and level L,
\* and a pass of the loop that finds input on it moves every byte there is
\* in it to the records of that logger and level (or to the partial line
\* held back for them).
C17_RegistryPolled ==
    [][/\ \A k \in DOMAIN log_fifo_filenames :
             /\ k \in DOMAIN log_fifo_filenames'
             /\ log_fifo_filenames'[k] = log_fifo_filenames[k]
       /\ (nrun' = nrun + 1 /\ last'.status = "ok" /\ IsLogPipe(last'.node))
            => /\ LogPipeKey(last'.node) \in DOMAIN log_fifo_filenames'
               /\ LogPipeKey(last'.node) \in DOMAIN log_fifo_filenames
                    => /\ log_fifo_filenames' = log_fifo_filenames
                       /\ DOMAIN fs' = DOMAIN fs
                       /\ "to_var" \in last'.node.keys
                            => stack'[Len(stack')].tv.raw
                                  = log_fifo_filenames[LogPipeKey(last'.node)]
       /\ InLoop'
            => \A k \in DOMAIN log_fifo_filenames' :
                  /\ log_fifo_filenames'[k] \in mux'.registered
                  /\ log_fifo_filenames'[k] \in DOMAIN mux'.fd_to_logpipe
                  /\ mux'.fd_to_logpipe[log_fifo_filenames'[k]] = log_fifo_filenames'[k]
                  /\ mux'.loggers[log_fifo_filenames'[k]] = KeyLogger(k)
       /\ (pc = "body" /\ pc' = "poll")
            => \A k \in DOMAIN log_fifo_filenames :
                  (/\ log_fifo_filenames[k] \in DOMAIN events
                   /\ "POLLIN" \in events[log_fifo_filenames[k]])
                    => Delivered(mux', log_fifo_filenames[k], KeyLogger(k))
                          = Delivered(mux, log_fifo_filenames[k], KeyLogger(k))
                              \o NoNewlines(mux.pipes[log_fifo_filenames[k]].data)]_vars

\* a child spawned in a nested scope, after `hit logpipe` ran in another
\* scope, has had a line of the FIFO logged through the sub-logger
C17_Witness ==
    /\ InLoop
    /\ Depth >= 3
    /\ stack[2].i >= 1
    /\ \E k \in DOMAIN log_fifo_filenames :
          /\ RecordsOf(mux.log, KeyLogger(k)) # <<>>
          /\ k = <<Heading, INFO>>

(***************************************************************************)
(* Redirection with a temp_dir the caller spells in a non-canonical way    *)
(***************************************************************************)
\* the directory of MadeTempDir as a caller may spell it
SpelledTempDir == MadeTempDir \o <<"/", ".">>

RedirLeaves == {Cmd1, WithAppend(Cmd1, OutFile), WithAppend(Cmd1, TmpFile)}

RedirInit ==
    /\ pc = "construct"
    /\ exc = None
    /\ result = Pending
    /\ arg_temp_dir \in {NoPath, MadeTempDir, SpelledTempDir}
    /\ temp_dir = NoPath
    /\ rm_temp_dir = FALSE
    /\ dirs = {cwd0, MadeTempDir}
    /\ fs = EmptyEnv
    /\ log_fifo_filenames = EmptyEnv
    /\ \E env \in InitEnvs : stack = <<Frame(env, cwd0, <<>>, 1, BaseNode, env)>>
    /\ budget = MaxNodes - 1
    /\ last_env = NoEnv
    /\ last_cwd = NoPath
    /\ cur = NoCur
    /\ proc = NoProc
    /\ mux = IdleMux
    /\ events = EmptyEnv
    /\ last = NoLast
    /\ ran = NoRan
    /\ nrun = 0
    /\ nspawn = 0
    /\ interp = Interp0

RedirRunCommands == RunCommands /\ last'.node \in {GroupNode(n) : n \in 1..MaxNodes}

RedirRunCmd == RunCmd /\ last'.node \in RedirLeaves

RedirNext ==
    \/ Construct
    \/ RedirRunCommands
    \/ RedirRunCmd
    \/ ChildWrite
    \/ ChildExit
    \/ Poll
    \/ LoopBody
    \/ LoopBreak
    \/ ReturnCommands
    \/ ReturnRoot
    \/ Finally

RedirSpec == RedirInit /\ [][RedirNext]_vars

\* the append_to_file target of a leaf: substituted, resolved against the
\* node's cwd, canonical
ResolvedTarget(node, node_env, node_cwd) ==
    LET resolved(name) == realpath(IF isabs(name) THEN name ELSE pjoin(node_cwd, name))
    IN resolved(self_substitute(node.append_to_file, node_env).val)

\* path is the directory dir or lies below it
IsUnder(path, dir) ==
    IsPrefix(NormComponents(SplitPath(dir, <<>>), <<>>),
             NormComponents(SplitPath(path, <<>>), <<>>))

\* C18: a cmd or hit leaf with append_to_file (and no other modifier) whose
\* arguments and path substitute, and whose path, resolved against the
\* node's cwd and made canonical, lies under temp_dir, fails with the
\* redirection error (NotImplementedError in the code); no file is created
\* or changed, no child is spawned, and last_env is left as it was.
C18_RedirectionRejected ==
    [][(/\ nrun' = nrun + 1
        /\ last'.handler \in {"cmd", "hit"}
        /\ last'.node.keys \in {{"cmd", "append_to_file"}, {"hit", "append_to_file"}}
        /\ SubstAll(last'.node.args, Top.env).ok
        /\ self_substitute(last'.node.append_to_file, Top.env).ok
        /\ IsUnder(ResolvedTarget(last'.node, Top.env, Top.cwd), temp_dir))
         => /\ last'.status = "raised"
            /\ exc' = "NotImplementedError"
            /\ fs' = fs
            /\ nspawn' = nspawn
            /\ last_env' = last_env]_vars

(***************************************************************************)
(* run_job: the initial environment                                        *)
(***************************************************************************)
\* variable names and artifact ids of the jobs considered
PATH == <<"P", "A", "T", "H">>
HDIST_CFLAGS == <<"H", "D", "I", "S", "T", "_", "C", "F", "L", "A", "G", "S">>
HDIST_LDFLAGS == <<"H", "D", "I", "S", "T", "_", "L", "D", "F", "L", "A", "G", "S">>
HDIST_IMPORT == <<"H", "D", "I", "S", "T", "_", "I", "M", "P", "O", "R", "T">>
HDIST_IMPORT_PATHS == HDIST_IMPORT \o <<"_", "P", "A", "T", "H", "S">>
HDIST_VIRTUALS == <<"H", "D", "I", "S", "T", "_", "V", "I", "R", "T", "U", "A", "L", "S">>
HDIST_CONFIG == <<"H", "D", "I", "S", "T", "_", "C", "O", "N", "F", "I", "G">>
virtual == <<"v", "i", "r", "t", "u", "a", "l", ":">>
ArtA == <<"a">>
ArtB == <<"b">>
VirtU == virtual \o <<"u">>
VirtV == virtual \o <<"v">>
ZREF == <<"z">>

\* an item of the import list; `keys` are the optional keys it carries and
\* ref_none says that its ref is None
Import(id, keys, ref, ref_none, in_env) ==
    [id |-> id, keys |-> keys, ref |-> ref, ref_none |-> ref_none, in_env |-> in_env]

\* canonicalize_import with in_env defaulting to False
canonicalize_import_in_env_off(item) ==
    IF "ref" \in item.keys /\ ~item.ref_none /\ item.ref = <<>> THEN Err("ValueError")
    ELSE Ok([item EXCEPT !.keys = {"ref", "in_env"},
                         !.ref_none = IF "ref" \in item.keys THEN @ ELSE TRUE,
                         !.in_env = IF "in_env" \in item.keys THEN @ ELSE FALSE])

\* canonicalize_job_spec: canonicalize_import on one item
canonicalize_import(item) ==
    IF "ref" \in item.keys /\ ~item.ref_none /\ item.ref = <<>> THEN Err("ValueError")
    ELSE Ok([item EXCEPT !.keys = {"ref", "in_env"},
                         !.ref_none = IF "ref" \in item.keys THEN @ ELSE TRUE,
                         !.in_env = IF "in_env" \in item.keys THEN @ ELSE TRUE])

\* canonicalize_job_spec on the import list
canonicalize_imports(imports) ==
    LET collect(rs) ==
            IF \E k \in 1..Len(rs) : ~rs[k].ok THEN Err("ValueError")
            ELSE Ok([k \in 1..Len(rs) |-> rs[k].val])
    IN collect([k \in 1..Len(imports) |-> canonicalize_import(imports[k])])

\* the loop of get_imports_env from item k on; acc holds env and the five
\* lists
RECURSIVE ImportsLoop(_, _, _, _, _, _)
ImportsLoop(resolve, exists, virtuals, imports, k, acc) ==
    IF k > Len(imports) THEN Ok(acc)
    ELSE
      LET dep == imports[k]
          named(a) == [a EXCEPT !.HDIST_IMPORT = Append(@, dep.id)]
          libs(dep_dir) ==
              SelectSeq(<<pjoin(dep_dir, <<"l", "i", "b">>),
                          pjoin(dep_dir, <<"l", "i", "b", "3", "2">>),
                          pjoin(dep_dir, <<"l", "i", "b", "6", "4">>)>>,
                        LAMBDA x : x \in exists)
          in_env(a, dep_dir, libdirs) ==
              IF Len(libdirs) > 1 THEN Err("InvalidJobSpecError")
              ELSE Ok([a EXCEPT
                  !.PATH = IF pjoin(dep_dir, <<"b", "i", "n">>) \in exists
                           THEN Append(@, pjoin(dep_dir, <<"b", "i", "n">>)) ELSE @,
                  !.HDIST_LDFLAGS =
                      IF Len(libdirs) = 1
                      THEN @ \o << <<"-", "L">> \o libdirs[1],
                                   <<"-", "W", "l", ",", "-", "R", ",">> \o libdirs[1] >>
                      ELSE @,
                  !.HDIST_CFLAGS =
                      IF pjoin(dep_dir, <<"i", "n", "c", "l", "u", "d", "e">>) \in exists
                      THEN Append(@, <<"-", "I">>
                                       \o pjoin(dep_dir, <<"i", "n", "c", "l", "u", "d", "e">>))
                      ELSE @])
          referred(a, dep_id, dep_dir) ==
              IF dep.ref_none THEN a
              ELSE [a EXCEPT !.env = Put(Put(@, dep.ref, dep_dir),
                                         dep.ref \o <<"_", "I", "D">>, dep_id)]
          next(r) ==
              IF ~r.ok THEN r
              ELSE ImportsLoop(resolve, exists, virtuals, imports, k + 1, r.val)
          resolved(a, dep_id) ==
              IF dep_id \notin DOMAIN resolve THEN Err("InvalidJobSpecError")
              ELSE next(IF dep.in_env
                        THEN in_env(referred([a EXCEPT !.HDIST_IMPORT_PATHS =
                                                          Append(@, resolve[dep_id])],
                                             dep_id, resolve[dep_id]),
                                    resolve[dep_id], libs(resolve[dep_id]))
                        ELSE Ok(referred([a EXCEPT !.HDIST_IMPORT_PATHS =
                                                      Append(@, resolve[dep_id])],
                                         dep_id, resolve[dep_id])))
      IN IF IsPrefix(virtual, dep.id) THEN
             IF dep.id \notin DOMAIN virtuals THEN Err("ValueError")
             ELSE resolved(named(acc), virtuals[dep.id])
         ELSE resolved(named(acc), dep.id)

\* get_imports_env(build_store, virtuals, imports): `resolve` maps the built
\* artifacts to their directories, `exists` are the paths that exist
get_imports_env(resolve, exists, virtuals, imports) ==
    LET joined(r) ==
            IF ~r.ok THEN r
            ELSE Ok(Put(Put(Put(Put(Put(r.val.env,
                     PATH, Join(pathsep, r.val.PATH)),
                     HDIST_CFLAGS, Join(<<" ">>, r.val.HDIST_CFLAGS)),
                     HDIST_LDFLAGS, Join(<<" ">>, r.val.HDIST_LDFLAGS)),
                     HDIST_IMPORT, Join(<<" ">>, r.val.HDIST_IMPORT)),
                     HDIST_IMPORT_PATHS, Join(<<" ">>, r.val.HDIST_IMPORT_PATHS)))
    IN joined(ImportsLoop(resolve, exists, virtuals, imports, 1,
                          [env |-> EmptyEnv, PATH |-> <<>>, HDIST_CFLAGS |-> <<>>,
                           HDIST_LDFLAGS |-> <<>>, HDIST_IMPORT |-> <<>>,
                           HDIST_IMPORT_PATHS |-> <<>>]))

\* the character codes that order the keys of the virtuals considered
Ascii(c) ==
    CASE c = ":" -> 58 [] c = "a" -> 97 [] c = "b" -> 98 [] c = "i" -> 105
      [] c = "l" -> 108 [] c = "r" -> 114 [] c = "t" -> 116 [] c = "u" -> 117
      [] c = "v" -> 118 [] OTHER -> 0

\* a <= b for str
RECURSIVE StrLeq(_, _)
StrLeq(a, b) ==
    IF a = <<>> THEN TRUE
    ELSE IF b = <<>> THEN FALSE
    ELSE IF Head(a) = Head(b) THEN StrLeq(Tail(a), Tail(b))
    ELSE Ascii(Head(a)) < Ascii(Head(b))

\* sorted(d.items()), as the list of its keys
RECURSIVE SortedKeys(_)
SortedKeys(keys) ==
    IF keys = {} THEN <<>>
    ELSE LET first == CHOOSE x \in keys : \A y \in keys : StrLeq(x, y)
         IN <<first>> \o SortedKeys(keys \ {first})

pack_virtuals_envvar(virtuals) ==
    LET packed(order) ==
            Join(<<";">>, [k \in 1..Len(order) |-> order[k] \o <<"=">> \o virtuals[order[k]]])
    IN packed(SortedKeys(DOMAIN virtuals))

\* json.dumps(config, separators=(',', ':')) of a dict of strings with at
\* most one key
json_dumps_compact(config) ==
    LET member(k) == JsonDumps(k) \o <<":">> \o JsonDumps(config[k])
    IN <<"{">> \o (IF DOMAIN config = {} THEN <<>>
                   ELSE member(CHOOSE k \in DOMAIN config : TRUE)) \o <<"}">>

\* the arguments of run_job that the environment is built from
MaxImports == 3
ImportItems ==
    {Import(ArtA, {}, <<>>, TRUE, TRUE),
     Import(ArtB, {"ref", "in_env"}, ZREF, FALSE, FALSE),
     Import(VirtV, {"ref"}, ZREF, FALSE, TRUE),
     Import(ArtB, {"ref"}, PATH, FALSE, TRUE),
     Import(ArtA, {"ref"}, <<>>, FALSE, TRUE)}
ImportLists == UNION {[1..n -> ImportItems] : n \in 0..MaxImports}
DirA == <<"/", "a">>
DirB == <<"/", "b">>
BuildStores == {Put(Put(EmptyEnv, ArtA, DirA), ArtB, DirB), Put(EmptyEnv, ArtA, DirA)}
ExistingPaths ==
    {{},
     {DirA \o <<"/", "b", "i", "n">>, DirB \o <<"/", "b", "i", "n">>},
     {DirA \o <<"/", "b", "i", "n">>, DirA \o <<"/", "l", "i", "b">>,
      DirA \o <<"/", "i", "n", "c", "l", "u", "d", "e">>},
     {DirB \o <<"/", "b", "i", "n">>, DirB \o <<"/", "l", "i", "b">>,
      DirB \o <<"/", "l", "i", "b", "6", "4">>}}
VirtualMaps ==
    {EmptyEnv, Put(EmptyEnv, VirtV, ArtB), Put(Put(EmptyEnv, VirtV, ArtA), VirtU, ArtB)}
NohashParams == {EmptyEnv, Put(EmptyEnv, ZREF, <<"n">>), Put(EmptyEnv, PATH, <<"n">>)}
OverrideEnvs ==
    {EmptyEnv, Put(EmptyEnv, ZREF, <<"o">>), Put(EmptyEnv, PATH, <<"o">>),
     Put(Put(Put(EmptyEnv, ZREF, <<"o">>), HDIST_VIRTUALS, <<"o">>), HDIST_CONFIG, <<"o">>)}
Configs == {EmptyEnv, Put(EmptyEnv, <<"k">>, <<"v">>)}

JobArgs ==
    [import : ImportLists, nohash_params : NohashParams, override_env : OverrideEnvs,
     virtuals : VirtualMaps, config : Configs, resolve : BuildStores,
     exists : ExistingPaths]

\* the arguments of the call: kept in the node of run_job's frame
Args == stack[1].node

EnvInit ==
    /\ pc = "imports"
    /\ exc = None
    /\ result = Pending
    /\ arg_temp_dir = NoPath
    /\ temp_dir = NoPath
    /\ rm_temp_dir = FALSE
    /\ dirs = {cwd0}
    /\ fs = EmptyEnv
    /\ log_fifo_filenames = EmptyEnv
    /\ \E a \in JobArgs : stack = <<Frame(EmptyEnv, cwd0, <<>>, 1, a @@ BaseNode, EmptyEnv)>>
    /\ budget = MaxNodes - 1
    /\ last_env = NoEnv
    /\ last_cwd = NoPath
    /\ cur = NoCur
    /\ proc = NoProc
    /\ mux = IdleMux
    /\ events = EmptyEnv
    /\ last = NoLast
    /\ ran = NoRan
    /\ nrun = 0
    /\ nspawn = 0
    /\ interp = Interp0

\* run_job, lines 275-276: canonicalize_job_spec and get_imports_env; an
\* exception leaves run_job before the executor exists
ImportsEnv ==
    /\ pc = "imports"
    /\ LET built(r) ==
               IF r.ok THEN
                   /\ stack' = <<[stack[1] EXCEPT !.env = r.val]>>
                   /\ pc' = "overlay"
                   /\ UNCHANGED <<exc, result>>
               ELSE
                   /\ exc' = r.err
                   /\ result' = [kind |-> "raised", env |-> NoEnv, exc |-> r.err]
                   /\ pc' = "done"
                   /\ UNCHANGED stack
           canonical(c) ==
               IF c.ok
               THEN built(get_imports_env(Args.resolve, Args.exists, Args.virtuals, c.val))
               ELSE built(c)
       IN canonical(canonicalize_imports(Args.import))
    /\ UNCHANGED <<arg_temp_dir, temp_dir, rm_temp_dir, dirs, fs, log_fifo_filenames,
                   budget, last_env, last_cwd, cur, proc, mux, events, last, ran, nrun,
                   nspawn>>
    /\ UNCHANGED interp

\* lines 277-280 with the caller's overrides applied before nohash_params
run_job_env_overrides_first(env, nohash_params, override_env, virtuals, config) ==
    Put(Put(Update(Update(env, override_env), nohash_params),
            HDIST_VIRTUALS, pack_virtuals_envvar(virtuals)),
        HDIST_CONFIG, json_dumps_compact(config))

\* run_job, lines 277-280, on the env that get_imports_env returned
run_job_env(env, nohash_params, override_env, virtuals, config) ==
    Put(Put(Update(Update(env, nohash_params), override_env),
            HDIST_VIRTUALS, pack_virtuals_envvar(virtuals)),
        HDIST_CONFIG, json_dumps_compact(config))

\* run_job, lines 277-280
Overlay ==
    /\ pc = "overlay"
    /\ LET written(env) == stack' = <<[stack[1] EXCEPT !.env = env, !.entry = env]>>
       IN written(run_job_env(stack[1].env, Args.nohash_params, Args.override_env,
                              Args.virtuals, Args.config))
    /\ pc' = "construct"
    /\ UNCHANGED <<exc, result, arg_temp_dir, temp_dir, rm_temp_dir, dirs, fs,
                   log_fifo_filenames, budget, last_env, last_cwd, cur, proc, mux, events,
                   last, ran, nrun, nspawn>>
    /\ UNCHANGED interp

EnvNext ==
    \/ ImportsEnv
    \/ Overlay

EnvSpec == EnvInit /\ [][EnvNext]_vars

\* the directory an import of the job resolves to
ImportDir(item) ==
    Args.resolve[IF IsPrefix(virtual, item.id) THEN Args.virtuals[item.id] ELSE item.id]

\* in_env of an import, True when the item does not say
InEnv(item) == "in_env" \notin item.keys \/ item.in_env

BinDir(item) == pjoin(ImportDir(item), <<"b", "i", "n">>)

\* C19: in the environment that get_imports_env returns, PATH is the
\* pathsep-joined list of the bin directories of the imports with in_env
\* true whose bin directory exists, in import order; HDIST_IMPORT is the
\* space-joined list of the raw ids of all imports and HDIST_IMPORT_PATHS
\* that of their resolved directories, in import order.
C19_ImportOrdering ==
    pc = "overlay"
        => LET used(item) == InEnv(item) /\ BinDir(item) \in Args.exists
               kept == SelectSeq(Args.import, used)
           IN /\ stack[1].env[PATH] = Join(pathsep, [k \in 1..Len(kept) |-> BinDir(kept[k])])
              /\ stack[1].env[HDIST_IMPORT]
                   = Join(<<" ">>, [k \in 1..Len(Args.import) |-> Args.import[k].id])
              /\ stack[1].env[HDIST_IMPORT_PATHS]
                   = Join(<<" ">>, [k \in 1..Len(Args.import) |-> ImportDir(Args.import[k])])

\* three imports: two whose different bin directories are in PATH, one of
\* them with in_env left to its default, and one with in_env false whose bin
\* directory exists; one id is virtual
C19_Witness ==
    /\ pc = "overlay"
    /\ Len(Args.import) = 3
    /\ \E i, j, k \in 1..3 :
          /\ i < j
          /\ InEnv(Args.import[i]) /\ BinDir(Args.import[i]) \in Args.exists
          /\ InEnv(Args.import[j]) /\ BinDir(Args.import[j]) \in Args.exists
          /\ BinDir(Args.import[i]) # BinDir(Args.import[j])
          /\ "in_env" \notin Args.import[i].keys \/ "in_env" \notin Args.import[j].keys
          /\ ~InEnv(Args.import[k]) /\ BinDir(Args.import[k]) \in Args.exists
    /\ \E k \in 1..3 : IsPrefix(virtual, Args.import[k].id)
    /\ stack[1].env[PATH] = Join(pathsep, <<DirB \o <<"/", "b", "i", "n">>,
                                            DirA \o <<"/", "b", "i", "n">>>>)

\* the virtual mapping as k=v items in ascending order of k, joined by ';'
SortedVirtuals(virtuals) ==
    LET ascending(o) == \A i, j \in DOMAIN o : i < j => o[i] # o[j] /\ StrLeq(o[i], o[j])
        order == CHOOSE o \in [1..Cardinality(DOMAIN virtuals) -> DOMAIN virtuals] :
                     ascending(o)
    IN Join(<<";">>, [k \in DOMAIN order |-> order[k] \o <<"=">> \o virtuals[order[k]]])

\* the compact JSON text of the configurations considered
CompactConfig(config) ==
    IF config = EmptyEnv THEN <<"{", "}">>
    ELSE <<"{", "\"", "k", "\"", ":", "\"", "v", "\"", "}">>

HitLevels == {LevelNo("DEBUG"), LevelNo("INFO"), LevelNo("ERROR")}

HitLeaves == {Hit1, WithToVar(Hit1, XVAR), WithAppend(Hit1, OutFile), LogPipe1}

\* run_hit, lines 651-656: what the try block sets before the subcommand
run_hit_enter(i, redirected) ==
    [level |-> IF i.level > LevelNo("DEBUG") THEN LevelNo("WARNING") ELSE i.level,
     stdout |-> IF redirected THEN "sink" ELSE i.stdout]

\* a finally clause that restores nothing
run_hit_finally_keeps(i, old_level, old_stdout) == i

\* run_hit, lines 671-673: the finally clause
run_hit_finally(i, old_level, old_stdout) == [level |-> old_level, stdout |-> old_stdout]

HitInit ==
    /\ pc = "construct"
    /\ exc = None
    /\ result = Pending
    /\ arg_temp_dir = NoPath
    /\ temp_dir = NoPath
    /\ rm_temp_dir = FALSE
    /\ dirs = {cwd0, GivenTempDir}
    /\ fs = EmptyEnv
    /\ log_fifo_filenames = EmptyEnv
    /\ stack = <<Frame(EmptyEnv, cwd0, <<>>, 1, BaseNode, EmptyEnv)>>
    /\ budget = MaxNodes - 1
    /\ last_env = NoEnv
    /\ last_cwd = NoPath
    /\ cur = NoCur
    /\ proc = NoProc
    /\ mux = IdleMux
    /\ events = EmptyEnv
    /\ last = NoLast
    /\ ran = NoRan
    /\ nrun = 0
    /\ nspawn = 0
    /\ interp \in [level : HitLevels, stdout : {"stdout"}]

\* handle_hit up to the subcommand: handle_command_nodes, then lines 645-656
HitCall ==
    /\ CanRun
    /\ \E node \in NextNodes \cap HitLeaves :
        LET called(p) ==
                /\ fs' = p.fs
                /\ IF ~p.ok THEN
                       /\ Raise(p.err)
                       /\ last' = Called(node, "hit", "raised")
                       /\ UNCHANGED <<cur, interp>>
                   ELSE
                       /\ cur' = [node |-> node, node_env |-> p.node_env,
                                  node_cwd |-> p.node_cwd, args |-> p.args,
                                  sink |-> p.sink, file |-> p.file, scope |-> Top.env,
                                  ins |-> p.ins, old_level |-> interp.level,
                                  old_stdout |-> interp.stdout, entered |-> interp,
                                  h |-> Err(None)]
                       /\ interp' = run_hit_enter(interp, p.sink # "none")
                       /\ pc' = "hit"
                       /\ last' = Called(node, "hit", "running")
                       /\ UNCHANGED exc
        IN called(LeafPrepare(node, Top.env, Top.cwd, ChildPos, temp_dir, fs))
    /\ nrun' = nrun + 1
    /\ UNCHANGED <<result, arg_temp_dir, temp_dir, rm_temp_dir, dirs, log_fifo_filenames,
                   stack, budget, last_env, last_cwd, proc, mux, events, ran, nspawn>>

\* lines 658-667: create_log_pipe, or the subcommand, which may leave the
\* logger at another level
HitBody ==
    /\ pc = "hit"
    /\ \E o \in HitOutcomes, level \in {interp.level, LevelNo("DEBUG")} :
        LET ran_hit(h) ==
                /\ cur' = [cur EXCEPT !.h = h]
                /\ fs' = h.fs
                /\ log_fifo_filenames' = h.registry
                /\ interp' = IF IsLogPipe(cur.node) THEN interp
                             ELSE [interp EXCEPT !.level = level]
        IN ran_hit(run_hit(cur.args, log_fifo_filenames, temp_dir, fs, o))
    /\ pc' = "hit_finally"
    /\ UNCHANGED <<exc, result, arg_temp_dir, temp_dir, rm_temp_dir, dirs, stack, budget,
                   last_env, last_cwd, proc, mux, events, last, ran, nrun, nspawn>>

\* lines 668-673 and the return to handle_command_nodes
HitFinally ==
    /\ pc = "hit_finally"
    /\ interp' = run_hit_finally(interp, cur.old_level, cur.old_stdout)
    /\ fs' = SinkClosed(fs, cur.sink, cur.file, cur.h.out)
    /\ IF ~cur.h.ok THEN
           /\ Raise(cur.h.err)
           /\ last' = [last EXCEPT !.status = "raised"]
           /\ cur' = NoCur
           /\ FailedLeaf
           /\ UNCHANGED <<proc, events>>
       ELSE
           /\ CompleteLeaf(cur.node, cur.node_env, cur.node_cwd, cur.scope, cur.ins,
                           IF cur.sink = "var" THEN cur.h.out ELSE <<>>)
           /\ last' = [last EXCEPT !.status = "ok"]
    /\ UNCHANGED <<result, arg_temp_dir, temp_dir, rm_temp_dir, dirs, log_fifo_filenames,
                   budget, mux, nrun, nspawn>>

HitRunCommands == RunCommands /\ last'.node \in {GroupNode(n) : n \in 1..MaxNodes}

HitNext ==
    \/ Construct
    \/ HitRunCommands
    \/ HitCall
    \/ HitBody
    \/ HitFinally
    \/ ReturnCommands
    \/ ReturnRoot
    \/ Finally

HitSpec == HitInit /\ [][HitNext]_vars

\* C21: when run_hit starts a subcommand other than logpipe, the logger is
\* at WARNING if it was above DEBUG (and where it was otherwise) and
\* sys.stdout is the sink if the leaf has one (and what it was otherwise);
\* when run_hit is left, by return or by exception, level and stdout are
\* what they were when it was called, whatever the subcommand did to the
\* level; no other step of the job changes them.
C21_HitFrameRestored ==
    [][/\ (pc' = "hit" /\ ~IsLogPipe(last'.node))
            => /\ interp'.level = IF interp.level > LevelNo("DEBUG")
                                  THEN LevelNo("WARNING") ELSE interp.level
               /\ interp'.stdout = IF SinkKind(last'.node) # "none" THEN "sink"
                                   ELSE interp.stdout
       /\ pc = "hit_finally" => interp' = cur.entered
       /\ (pc \notin {"hit", "hit_finally"} /\ pc' # "hit") => interp' = interp]_vars

\* a hit subcommand with a to_var sink has failed under a logger at ERROR,
\* and level and stdout are back
C21_Witness ==
    /\ pc = "finally"
    /\ exc = "HitError"
    /\ last.handler = "hit"
    /\ "to_var" \in last.node.keys
    /\ interp = [level |-> LevelNo("ERROR"), stdout |-> "stdout"]

\* what dump_inputs writes for one input
InputValue(input) ==
    IF "text" \in input.keys THEN Join(<<"\n">>, input.text)
    ELSE IF "string" \in input.keys THEN input.string
    ELSE JsonDumps(input.json)

\* the name the claim gives the file of input i of the node at node_pos
ClaimedInputFile(node_pos, i, input) ==
    temp_dir \o <<"/">>
      \o Flatten([k \in 1..Len(node_pos) |-> <<Digit(node_pos[k]), "_">>])
      \o (IF node_pos = <<>> THEN <<"_">> ELSE <<>>)
      \o <<"i", "n", Digit(i)>>
      \o (IF "json" \in input.keys THEN <<".", "j", "s", "o", "n">> ELSE <<>>)

\* the in<i> bindings of the leaf that has just been started or completed
LeafInputs == IF pc' = "poll" THEN cur'.ins ELSE ran'.ins

\* C22: no step before teardown changes or removes a file that exists under
\* temp_dir.  When a cmd or hit leaf with inputs gets as far as its
\* command, it has in0, in1, ... bound, one per input; the file of input i
\* has the claimed name under temp_dir, did not exist before the leaf,
\* differs from the files of the leaf's other inputs, and holds the value
\* of input i; the environment of a child spawned binds in<i> to it.
C22_InputFilesDistinct ==
    [][/\ pc' # "done"
            => \A f \in DOMAIN fs :
                  IsPrefix(temp_dir \o <<"/">>, f) => f \in DOMAIN fs' /\ fs'[f] = fs[f]
       /\ (/\ nrun' = nrun + 1
           /\ last'.handler \in {"cmd", "hit"}
           /\ "inputs" \in last'.node.keys
           /\ last'.status \in {"running", "ok"})
            => /\ DOMAIN LeafInputs = {InputName(i - 1) : i \in 1..Len(last'.node.inputs)}
               /\ \A i \in 1..Len(last'.node.inputs) :
                     /\ LeafInputs[InputName(i - 1)]
                          = ClaimedInputFile(last'.pos, i - 1, last'.node.inputs[i])
                     /\ LeafInputs[InputName(i - 1)] \notin DOMAIN fs
                     /\ LeafInputs[InputName(i - 1)] \in DOMAIN fs'
                     /\ fs'[LeafInputs[InputName(i - 1)]] = InputValue(last'.node.inputs[i])
                     /\ \A j \in 1..Len(last'.node.inputs) :
                           i # j => LeafInputs[InputName(i - 1)] # LeafInputs[InputName(j - 1)]
                     /\ pc' = "poll"
                          => cur'.node_env[InputName(i - 1)] = LeafInputs[InputName(i - 1)]]_vars

\* two leaves at different positions have had their inputs written, the
\* second one two of them
C22_Witness ==
    /\ pc \in {"run", "poll", "body"}
    /\ Cardinality({f \in DOMAIN fs : Contains(f, <<"_", "i", "n">>)}) >= 3
    /\ last.handler \in {"cmd", "hit"}
    /\ last.status \in {"running", "ok"}
    /\ Len(last.node.inputs) = 2

\* C23: when the loop of logged_check_call ends (poll returned no events
\* and the child has terminated), no byte written to the child's stdout or
\* stderr or to a registered FIFO is still unread in its pipe.
C23_AllBytesRead ==
    (pc = "body" /\ LoopEnds) => AllRead

\* C23 (exit condition): the step that leaves the loop is taken with no
\* events from the last poll and the child terminated
C23_ExitsOnEmptyCycle ==
    [][(pc = "body" /\ pc' \notin {"body", "poll"}) => (DOMAIN events = {} /\ proc.state = "exited")]_vars

\* The loop of logged_check_call is straight-line code of one thread: a poll
\* that is due returns within its 50 ms, and the loop body or the break
\* follows it.
MuxFairness == WF_vars(Poll) /\ WF_vars(LoopBody) /\ WF_vars(LoopBreak)

\* jobs of a `hit logpipe` and a cmd, small enough for the cycles of the
\* state graph to be searched
MaxLiveNodes == 3

LiveLeaves == {LogPipe1, Cmd1}

LiveInit ==
    /\ pc = "construct"
    /\ exc = None
    /\ result = Pending
    /\ arg_temp_dir = NoPath
    /\ temp_dir = NoPath
    /\ rm_temp_dir = FALSE
    /\ dirs = {cwd0, GivenTempDir}
    /\ fs = EmptyEnv
    /\ log_fifo_filenames = EmptyEnv
    /\ stack = <<Frame(EmptyEnv, cwd0, <<>>, 1, BaseNode, EmptyEnv)>>
    /\ budget = MaxLiveNodes - 1
    /\ last_env = NoEnv
    /\ last_cwd = NoPath
    /\ cur = NoCur
    /\ proc = NoProc
    /\ mux = IdleMux
    /\ events = EmptyEnv
    /\ last = NoLast
    /\ ran = NoRan
    /\ nrun = 0
    /\ nspawn = 0
    /\ interp = Interp0

LiveRunCommands == RunCommands /\ last'.node \in {GroupNode(n) : n \in 1..MaxLiveNodes}

LiveRunHit == RunHit /\ last'.node \in LiveLeaves

LiveRunCmd == RunCmd /\ last'.node \in LiveLeaves

LiveNext ==
    \/ Construct
    \/ LiveRunCommands
    \/ LiveRunHit
    \/ LiveRunCmd
    \/ MuxWrite
    \/ FifoWrite
    \/ ChildExit
    \/ Poll
    \/ LoopBody
    \/ LoopBreak
    \/ ReturnCommands
    \/ ReturnRoot
    \/ Finally

LiveSpec == LiveInit /\ [][LiveNext]_vars /\ MuxFairness

\* every writer of the child's stdout and stderr and of the registered FIFOs
\* has closed
WritersClosed ==
    /\ proc.state = "exited"
    /\ mux.pipes[stdout_fd].hup /\ mux.pipes[stderr_fd].hup

\* C24: once the child has terminated and every writer has closed, the loop
\* of logged_check_call eventually sees an empty poll and is left; a FIFO
\* without a writer does not keep it going.
C24_LoopEnds ==
    (InLoop /\ WritersClosed) ~> ~InLoop

\* the loop is about to break with a FIFO that had a writer and was reopened
C24_Witness ==
    /\ pc = "body" /\ LoopEnds
    /\ \E fd \in DOMAIN mux.fd_to_logpipe :
        /\ fd \in DOMAIN proc.sent /\ proc.sent[fd] # <<>>
        /\ mux.pipes[fd] = NewPipe

\* the FIFO readers of the loop: one open, registered descriptor for each
\* FIFO of the registry
OneReaderPerFifo ==
    LET fds == DOMAIN mux.fd_to_logpipe
    IN /\ {mux.fd_to_logpipe[fd] : fd \in fds} =
              {log_fifo_filenames[k] : k \in DOMAIN log_fifo_filenames}
       /\ \A a, b \in fds : mux.fd_to_logpipe[a] = mux.fd_to_logpipe[b] => a = b
       /\ fds \subseteq mux.registered
       /\ fds \subseteq DOMAIN mux.pipes
       /\ fds \subseteq DOMAIN mux.buffers
       /\ fds \subseteq DOMAIN mux.loggers
       /\ fds \cap {stdout_fd, stderr_fd} = {}

\* the records the code after the loop owes: one for each non-empty buffer
Residue(m) ==
    {LogRecord(m.loggers[fd], m.buffers[fd]) : fd \in {f \in DOMAIN m.buffers : m.buffers[f] # <<>>}}

C26_FailedLeafLeavesScope ==
    [][(/\ pc \in {"run", "poll", "body"}
        /\ last'.handler \in {"cmd", "hit"}
        /\ last'.status \in {"running", "raised"}) =>
            /\ stack' = stack
            /\ Top.env = last'.before
            /\ last_env' = last_env /\ last_cwd' = last_cwd
            /\ ~ran'.some => (last_env' = NoEnv /\ last_cwd' = NoPath)
            /\ ran'.some => last_env' # NoEnv]_vars

\* a to_var cmd whose child wrote to its stdout and exited non-zero, after
\* another leaf had completed
C26_Witness ==
    /\ pc = "finally"
    /\ last.handler = "cmd" /\ last.status = "raised"
    /\ "to_var" \in last.node.keys
    /\ mux.stdout_to # <<>>
    /\ ran.some

\* C27: a cmd or hit leaf whose append_to_file path, resolved against the
\* node's cwd and made canonical, does not lie under temp_dir is not refused
\* with the redirection error (NotImplementedError in the code), also when
\* the path lies in a sibling directory whose name starts with temp_dir's.
C27_OutsideNotRejected ==
    [][(/\ nrun' = nrun + 1
        /\ last'.handler \in {"cmd", "hit"}
        /\ "append_to_file" \in last'.node.keys
        /\ self_substitute(last'.node.append_to_file, Top.env).ok
        /\ ~IsUnder(ResolvedTarget(last'.node, Top.env, Top.cwd), temp_dir))
         => ~(last'.status = "raised" /\ exc' = "NotImplementedError")]_vars

====
